---- MODULE Spec2Model ----
(***************************************************************************)
(* Session relay of the voice-assistant backend: AudioBuffer               *)
(* (app/utils/audio.py), the inbound loop (client_input_handler.py), the   *)
(* outbound loop with its audio / tool / delivery handlers                 *)
(* (gemini_response_handler.py, audio_processor.py,                        *)
(* tool_call_processor.py, tools/registry.py) and the connection handler   *)
(* (websocket_handler.py).                                                 *)
(*                                                                         *)
(* Time is a discrete clock `now` counted in seconds; the two thresholds   *)
(* of the code are written in tenths of a second.  The polling intervals   *)
(* of the loops (0.2 s receive timeout, 0.1 s idle sleep) are shorter than *)
(* one tick: a loop that polls has polled before the clock ticks.          *)
(*                                                                         *)
(* asyncio runs the loops and the tool tasks on one thread and switches    *)
(* between them only where a coroutine suspends, so one iteration of a     *)
(* loop body is one action.                                                *)
(*                                                                         *)
(* ToolCallProcessor.__init__ passes the results queue to                  *)
(* CallbackBasedFunctionRegistry, whose __init__ takes no such parameter,  *)
(* and sets use_callback_pattern to True.  The model takes the handlers    *)
(* as constructed and keeps both implementations of process_tool_call:     *)
(* the flag is chosen in Init.                                             *)
(***************************************************************************)
EXTENDS Integers, Sequences, FiniteSets, TLC

\* ---------------------------------------------------------------- bounds
MaxTime == 4          \* the clock stops at MaxTime seconds
MaxEvents == 3        \* assistant-stream events of one session
MaxClientMsgs == 1    \* client messages of one session
MaxCalls == 2         \* tool calls of one session
MaxBufferSize == 2    \* capacity of the session's buffers (5000 in config.py)
MaxCap == 3           \* largest capacity of the stand-alone AudioBuffer
MaxAdds == 5          \* operations on the stand-alone AudioBuffer
MaxPressureCap == 10  \* largest capacity asked for its pressure at every size
MaxInbound == 3       \* client messages of a session that only listens to the client

\* ------------------------------------------------------ program constants
BUFFER_TIMEOUT_SECONDS == 30       \* 3.0 s, in tenths of a second
MAX_BUFFER_SIZE == 5000            \* the capacity of AudioBuffer()
SPEECH_COMPLETION_THRESHOLD == 15  \* 1.5 s, in tenths of a second
connection_start_time == 0         \* loop time when the connection was accepted

None == "None"
NoTime == -1    \* a timestamp that is None
NoId == 0       \* an utterance id that is None

\* payloads of audio frames (bytes); len() is Len()
AudioData == {<<7, 7>>, <<9, 9, 9, 9>>}

Min(a, b) == IF a < b THEN a ELSE b
Max(a, b) == IF a > b THEN a ELSE b

\* the last n elements of s
LastN(s, n) == SubSeq(s, Len(s) - Min(n, Len(s)) + 1, Len(s))

VARIABLES
    \* session_state
    active_processing, client_ready_for_audio, audio_sequence_counter,
    gemini_audio_buffer, mic_audio_buffer,
    current_user_utterance_id, accumulated_user_speech_text,
    current_model_utterance_id, accumulated_model_speech_text,
    \* the uuids handed out by uuid.uuid4
    uuid_counter,
    \* GeminiResponseHandler
    speech_state, is_tool_response, processed_tool_calls,
    tool_results_queue, use_callback_pattern, tasks,
    \* the two loops and the connection handler
    pc_in, pc_out, had_activity, torn_down, out_exc,
    \* environment
    now, ws_open, n_events, n_msgs,
    \* what was sent to the client and to the assistant stream
    client_out, gemini_out,
    \* history of the handlers' calls
    audio_log, last_delivery, last_check, last_event, inactive_since,
    \* the messages the inbound loop has handled
    client_log,
    \* a stand-alone AudioBuffer
    ab, ab_added, ab_ret, ab_ops

utterance_vars == <<current_user_utterance_id,
                    accumulated_user_speech_text,
                    current_model_utterance_id,
                    accumulated_model_speech_text, uuid_counter>>
session_vars == <<active_processing, client_ready_for_audio,
                  audio_sequence_counter, gemini_audio_buffer,
                  mic_audio_buffer, utterance_vars>>
handler_vars == <<speech_state, is_tool_response, processed_tool_calls,
                  tool_results_queue, use_callback_pattern, tasks>>
loop_vars == <<pc_in, pc_out, had_activity, torn_down, out_exc>>
env_vars == <<now, ws_open, n_events, n_msgs>>
out_vars == <<client_out, gemini_out>>
hist_vars == <<audio_log, last_delivery, last_check, last_event,
               inactive_since, client_log>>
ab_vars == <<ab, ab_added, ab_ret, ab_ops>>
relay_vars == <<session_vars, handler_vars, loop_vars, env_vars, out_vars,
                hist_vars>>
vars == <<relay_vars, ab_vars>>

\* ------------------------------------------------------------ AudioBuffer

\* AudioBuffer.__init__
NewAudioBuffer(max_size) ==
    [max_size |-> max_size, buffer |-> <<>>, sequence_counter |-> 0]

\* as _remove_overflow_chunks, popping the newest chunk instead
RECURSIVE RemoveOverflowChunksNewest(_, _, _)
RemoveOverflowChunksNewest(buffer, max_size, removed) ==
    IF Len(buffer) > max_size
    THEN RemoveOverflowChunksNewest(SubSeq(buffer, 1, Len(buffer) - 1),
                                    max_size,
                                    Append(removed, buffer[Len(buffer)]))
    ELSE [buffer |-> buffer, removed |-> removed]

\* AudioBuffer._remove_overflow_chunks: pop(0) while over capacity
RECURSIVE RemoveOverflowChunks(_, _, _)
RemoveOverflowChunks(buffer, max_size, removed) ==
    IF Len(buffer) > max_size
    THEN RemoveOverflowChunks(Tail(buffer), max_size,
                              Append(removed, Head(buffer)))
    ELSE [buffer |-> buffer, removed |-> removed]

\* AudioBuffer.add_audio_chunk; metadata is the caller's dict (a function
\* on keys), whose entries override the buffer's own.  The timestamp,
\* sample_rate and expected_duration_ms entries are written and never read
\* by the relay and are left out.
AddAudioChunk(b, audio_data, metadata) ==
    LET counter == b.sequence_counter + 1
        chunk == [type |-> "buffered_audio",
                  audio_data |-> audio_data,
                  metadata |-> metadata @@
                               [sequence |-> counter,
                                size_bytes |-> Len(audio_data),
                                buffered |-> TRUE]]
        appended == Append(b.buffer, chunk)
        r == IF Len(appended) > b.max_size
             THEN RemoveOverflowChunks(appended, b.max_size, <<>>)
             ELSE [buffer |-> appended, removed |-> <<>>]
    IN [b |-> [b EXCEPT !.buffer = r.buffer, !.sequence_counter = counter],
        chunk |-> chunk,
        removed |-> r.removed]

\* as flush_all, without the clear
FlushAllKeepsBuffer(b) == [b |-> b, chunks |-> b.buffer]

\* AudioBuffer.flush_all
FlushAll(b) == [b |-> [b EXCEPT !.buffer = <<>>], chunks |-> b.buffer]

\* AudioBuffer.size
Size(b) == Len(b.buffer)

\* as get_pressure_level, with >= for >
GetPressureLevelInclusive(b) ==
    IF 10 * Size(b) >= 9 * b.max_size THEN "high"
    ELSE IF 10 * Size(b) >= 8 * b.max_size THEN "medium"
    ELSE "low"

\* AudioBuffer.get_pressure_level: fill_ratio = size / max_size compared
\* with 0.9 and 0.8.  The quotient is a double; it differs from size /
\* max_size by less than the distance 1 / (10 * max_size) that separates a
\* ratio above a threshold from the threshold, so the comparisons of
\* doubles decide as the comparisons of the integers do.
GetPressureLevel(b) ==
    IF 10 * Size(b) > 9 * b.max_size THEN "high"
    ELSE IF 10 * Size(b) > 8 * b.max_size THEN "medium"
    ELSE "low"

NoMetadata == [k \in {} |-> 0]
NoChunk == [type |-> "none"]

\* ------------------------------------------- the stand-alone AudioBuffer
\* A buffer of any capacity 1..MaxCap driven by add_audio_chunk and
\* flush_all alone.  ab_added lists the chunks added since the last flush,
\* ab_ret is what the last call returned.

InitAb ==
    /\ \E n \in 1..MaxCap : ab = NewAudioBuffer(n)
    /\ ab_added = <<>>
    /\ ab_ret = [op |-> "new", chunk |-> NoChunk, removed |-> <<>>,
                 chunks |-> <<>>, before |-> <<>>, level |-> "none"]
    /\ ab_ops = 0

\* add_audio_chunk(audio_data) and add_audio_chunk(audio_data, metadata)
AbAdd(audio_data, metadata) ==
    /\ ab_ops < MaxAdds
    /\ LET r == AddAudioChunk(ab, audio_data, metadata)
       IN /\ ab' = r.b
          /\ ab_added' = Append(ab_added, r.chunk)
          /\ ab_ret' = [op |-> "add", chunk |-> r.chunk,
                        removed |-> r.removed, chunks |-> <<>>,
                        before |-> ab.buffer, level |-> "none"]
    /\ ab_ops' = ab_ops + 1

\* flush_all()
AbFlush ==
    /\ ab_ops < MaxAdds
    /\ LET r == FlushAll(ab)
       IN /\ ab' = r.b
          /\ ab_ret' = [op |-> "flush", chunk |-> NoChunk, removed |-> <<>>,
                        chunks |-> r.chunks, before |-> ab.buffer,
                        level |-> "none"]
    /\ ab_added' = <<>>
    /\ ab_ops' = ab_ops + 1

\* get_pressure_level()
AbGetPressureLevel ==
    /\ ab_ret.op # "get_pressure_level"
    /\ ab_ret' = [op |-> "get_pressure_level", chunk |-> NoChunk,
                  removed |-> <<>>, chunks |-> <<>>, before |-> ab.buffer,
                  level |-> GetPressureLevel(ab)]
    /\ UNCHANGED <<ab, ab_added, ab_ops>>

\* the buffer of capacity max_size after size calls of
\* add_audio_chunk(audio_data)
FilledBuffer(size, max_size, audio_data) ==
    [max_size |-> max_size,
     buffer |-> [i \in 1..size |->
                    [type |-> "buffered_audio",
                     audio_data |-> audio_data,
                     metadata |-> [sequence |-> i,
                                   size_bytes |-> Len(audio_data),
                                   buffered |-> TRUE]]],
     sequence_counter |-> size]

\* the sizes next to the thresholds of a buffer of capacity max_size
BoundarySizes(max_size) ==
    {0, (8 * max_size) \div 10, (8 * max_size) \div 10 + 1,
     (9 * max_size) \div 10, (9 * max_size) \div 10 + 1, max_size}

PressureCases ==
    {c \in (0..MaxPressureCap) \X (1..MaxPressureCap) : c[1] <= c[2]}
    \cup {<<n, MAX_BUFFER_SIZE>> : n \in BoundarySizes(MAX_BUFFER_SIZE)}

InitPressure ==
    /\ \E c \in PressureCases : ab = FilledBuffer(c[1], c[2], <<7, 7>>)
    /\ ab_added = ab.buffer
    /\ ab_ret = [op |-> "new", chunk |-> NoChunk, removed |-> <<>>,
                 chunks |-> <<>>, before |-> <<>>, level |-> "none"]
    /\ ab_ops = 0

\* --------------------------------------------------------- the session
\* The handlers of one loop iteration run without interruption on the
\* state of the session; they are written as functions on a record s that
\* holds the fields they read and write.  s.raised names an exception that
\* is propagating, s.triggers lists the calls of
\* _deliver_queued_tool_responses made so far in the iteration.

Ctx ==
    [active |-> active_processing,
     ready |-> client_ready_for_audio,
     counter |-> audio_sequence_counter,
     gbuf |-> gemini_audio_buffer,
     mbuf |-> mic_audio_buffer,
     uid |-> current_user_utterance_id,
     utext |-> accumulated_user_speech_text,
     mid |-> current_model_utterance_id,
     mtext |-> accumulated_model_speech_text,
     uuids |-> uuid_counter,
     speech |-> speech_state,
     itr |-> is_tool_response,
     processed |-> processed_tool_calls,
     queue |-> tool_results_queue,
     tasks |-> tasks,
     cout |-> client_out,
     gout |-> gemini_out,
     alog |-> audio_log,
     delivery |-> last_delivery,
     handled |-> <<>>,
     triggers |-> <<>>,
     raised |-> None]

\* the frames of one flushed chunk: metadata first, then the bytes
\* (audio_processor.py 60-67)
FlushFrames(chunk) ==
    LET metadata == [flushed_by_timeout |-> TRUE] @@ chunk.metadata
    IN << metadata @@ [type |-> "audio_metadata"],
          [type |-> "bytes", data |-> chunk.audio_data] >>

RECURSIVE FlushAllFrames(_)
FlushAllFrames(chunks) ==
    IF chunks = <<>> THEN <<>>
    ELSE FlushFrames(Head(chunks)) \o FlushAllFrames(Tail(chunks))

RECURSIVE FlushAllFramesNewestFirst(_)
FlushAllFramesNewestFirst(chunks) ==
    IF chunks = <<>> THEN <<>>
    ELSE FlushAllFramesNewestFirst(Tail(chunks)) \o FlushFrames(Head(chunks))

\* as _handle_buffer_timeout, the newest chunk sent first
HandleBufferTimeoutNewestFirst(s) ==
    LET f == FlushAll(s.gbuf)
    IN [s EXCEPT !.ready = TRUE,
                 !.gbuf = f.b,
                 !.cout = IF ws_open
                          THEN @ \o FlushAllFramesNewestFirst(f.chunks)
                          ELSE @]

\* as _handle_buffer_timeout, leaving the chunks in the buffer
HandleBufferTimeoutNoFlush(s) == [s EXCEPT !.ready = TRUE]

\* AudioProcessor._handle_buffer_timeout: a failing send is caught for
\* each chunk and the chunk is dropped
HandleBufferTimeout(s) ==
    LET f == FlushAll(s.gbuf)
    IN [s EXCEPT !.ready = TRUE,
                 !.gbuf = f.b,
                 !.cout = IF ws_open THEN @ \o FlushAllFrames(f.chunks)
                          ELSE @]

\* AudioMetadata.create_metadata
CreateMetadata(sequence, chunk_size) ==
    [type |-> "audio_metadata", sequence |-> sequence,
     size_bytes |-> chunk_size]

\* as the live frames, the bytes ahead of their metadata
LiveFramesBytesFirst(sequence_num, audio_data) ==
    << [type |-> "gemini_playback_state", playing |-> TRUE,
        sequence |-> sequence_num],
       [type |-> "bytes", data |-> audio_data],
       CreateMetadata(sequence_num, Len(audio_data)) >>

\* the frames of one live chunk (audio_processor.py 106-116)
LiveFrames(sequence_num, audio_data) ==
    << [type |-> "gemini_playback_state", playing |-> TRUE,
        sequence |-> sequence_num],
       CreateMetadata(sequence_num, Len(audio_data)),
       [type |-> "bytes", data |-> audio_data] >>

\* as _send_audio_immediately, reusing the current sequence number
SendAudioImmediatelyNoIncrement(s, audio_data) ==
    LET sequence_num == s.counter
        s1 == [s EXCEPT !.alog = Append(@, [sequence |-> sequence_num,
                                            path |-> "live",
                                            data |-> audio_data])]
    IN IF ws_open
       THEN [s1 EXCEPT !.cout = @ \o LiveFrames(sequence_num, audio_data)]
       ELSE [s1 EXCEPT !.raised = "SendError"]

\* AudioProcessor._send_audio_immediately
SendAudioImmediately(s, audio_data) ==
    LET sequence_num == s.counter + 1
        s1 == [s EXCEPT !.counter = sequence_num,
                        !.alog = Append(@, [sequence |-> sequence_num,
                                            path |-> "live",
                                            data |-> audio_data])]
    IN IF ws_open
       THEN [s1 EXCEPT !.cout = @ \o LiveFrames(sequence_num, audio_data)]
       ELSE [s1 EXCEPT !.raised = "SendError"]

\* AudioMetadata.create_buffer_pressure_warning
CreateBufferPressureWarning(buffer_size, max_size, level) ==
    [type |-> "buffer_pressure", level |-> level,
     buffer_size |-> buffer_size, max_size |-> max_size,
     recommended_action |-> IF level = "high"
                            THEN "increase_playback_speed" ELSE "monitor"]

\* AudioMetadata.create_truncation_warning
CreateTruncationWarning(chunks_removed, buffer_size) ==
    [type |-> "audio_truncation", chunks_removed |-> chunks_removed,
     buffer_size |-> buffer_size, reason |-> "buffer_overflow"]

\* as _handle_buffer_pressure, a failing send ending the session
HandleBufferPressureFatal(s) ==
    LET pressure_level == GetPressureLevel(s.gbuf)
    IN IF pressure_level \in {"medium", "high"}
       THEN IF ws_open
            THEN [s EXCEPT !.cout = Append(@,
                     CreateBufferPressureWarning(Size(s.gbuf),
                                                 s.gbuf.max_size,
                                                 pressure_level))]
            ELSE [s EXCEPT !.active = FALSE]
       ELSE s

\* AudioProcessor._handle_buffer_pressure: a failing send is swallowed
HandleBufferPressure(s) ==
    LET pressure_level == GetPressureLevel(s.gbuf)
    IN IF pressure_level \in {"medium", "high"} /\ ws_open
       THEN [s EXCEPT !.cout = Append(@,
                 CreateBufferPressureWarning(Size(s.gbuf), s.gbuf.max_size,
                                             pressure_level))]
       ELSE s

\* as _handle_buffer_overflow, reporting the size of the buffer as the
\* number of chunks removed
HandleBufferOverflowReportsSize(s, removed_chunks) ==
    IF ws_open
    THEN [s EXCEPT !.cout = Append(@,
              CreateTruncationWarning(Size(s.gbuf), Size(s.gbuf)))]
    ELSE s

\* AudioProcessor._handle_buffer_overflow: a failing send is swallowed
HandleBufferOverflow(s, removed_chunks) ==
    IF ws_open
    THEN [s EXCEPT !.cout = Append(@,
              CreateTruncationWarning(Len(removed_chunks), Size(s.gbuf)))]
    ELSE s

\* AudioProcessor._buffer_audio
BufferAudio(s, audio_data) ==
    LET sequence_num == s.counter + 1
        r == AddAudioChunk(s.gbuf, audio_data, [sequence |-> sequence_num])
        s1 == [s EXCEPT !.counter = sequence_num,
                        !.gbuf = r.b,
                        !.alog = Append(@, [sequence |->
                                                r.chunk.metadata.sequence,
                                            path |-> "buffered",
                                            data |-> audio_data])]
        s2 == HandleBufferPressure(s1)
    IN IF r.removed # <<>> THEN HandleBufferOverflow(s2, r.removed) ELSE s2

\* as process_audio_response, an exception of the sends only logged
ProcessAudioResponseSwallows(s, audio_data) ==
    LET time_since_connection == 10 * (now - connection_start_time)
        s1 == IF ~s.ready /\ time_since_connection > BUFFER_TIMEOUT_SECONDS
              THEN HandleBufferTimeout(s) ELSE s
        s2 == IF s1.ready THEN SendAudioImmediately(s1, audio_data)
              ELSE BufferAudio(s1, audio_data)
    IN [s2 EXCEPT !.raised = None]

\* as process_audio_response, without the test of client_ready_for_audio
ProcessAudioResponseAlwaysBuffer(s, audio_data) ==
    BufferAudio(s, audio_data)

\* AudioProcessor.process_audio_response: an exception of the sends sets
\* active_processing to False and is not propagated
ProcessAudioResponse(s, audio_data) ==
    LET time_since_connection == 10 * (now - connection_start_time)
        s1 == IF ~s.ready /\ time_since_connection > BUFFER_TIMEOUT_SECONDS
              THEN HandleBufferTimeout(s) ELSE s
        s2 == IF s1.ready THEN SendAudioImmediately(s1, audio_data)
              ELSE BufferAudio(s1, audio_data)
    IN IF s2.raised # None
       THEN [s2 EXCEPT !.raised = None, !.active = FALSE]
       ELSE s2

\* ------------------------------------------------------------ tool calls
\* names the assistant may call; the second has no implementation
ToolNames == {"take_a_nap", "no_such_tool"}
available_functions == {"take_a_nap"}

\* what a tool implementation does when it is called: it raises, or it
\* returns a str, a dict, or a dict that carries a "uuid" entry
ToolOutcomes == {"raise", "str", "dict", "dict_uuid"}

\* a returned str is the record [str |-> ...], a returned dict a record
\* of its entries
ToolReturn(outcome) ==
    IF outcome = "str" THEN [str |-> "text"]
    ELSE IF outcome = "dict_uuid" THEN [status |-> "SUCCESS", uuid |-> "u1"]
    ELSE [status |-> "PENDING"]

IsStr(value) == "str" \in DOMAIN value

NoResult == [status |-> "none"]

\* a task per call: the index in tasks is the call id; outcome records
\* what the implementation did once the task has run
NewTask(name) == [name |-> name, state |-> "running", result |-> NoResult,
                  outcome |-> "none"]

\* as the loop over function_calls, leaving it after the first call
StartTasksFirstOnly(ts, names) ==
    IF names = <<>> THEN ts ELSE Append(ts, NewTask(Head(names)))

RECURSIVE StartTasks(_, _)
StartTasks(ts, names) ==
    IF names = <<>> THEN ts
    ELSE StartTasks(Append(ts, NewTask(Head(names))), Tail(names))

\* as process_tool_call, awaiting every call of the batch in turn: each
\* call has run and its response is on the results queue on return
RECURSIVE ProcessToolCallInline(_, _)
ProcessToolCallInline(s, function_calls) ==
    IF function_calls = <<>> THEN s
    ELSE LET name == Head(function_calls)
             body == IF name \in available_functions
                     THEN [status |-> "PENDING"]
                     ELSE [status |-> "error", message |-> "not implemented"]
             id == Len(s.tasks) + 1
             s1 == [s EXCEPT
                      !.tasks = Append(@, [NewTask(name) EXCEPT
                                              !.state = "done",
                                              !.result = body,
                                              !.outcome = "dict"]),
                      !.queue = [items |-> Append(@.items,
                                     [kind |-> "FunctionResponse",
                                      id |-> id, name |-> name,
                                      response |-> body]),
                                 unfinished |-> @.unfinished + 1]]
         IN ProcessToolCallInline(s1, Tail(function_calls))

\* ToolCallProcessor.process_tool_call: with use_callback_pattern every
\* call goes to CallbackBasedFunctionRegistry.start_function_with_callback,
\* otherwise to _process_tool_call_original; both create one task per call
\* and return
ProcessToolCall(s, function_calls) ==
    [s EXCEPT !.tasks = StartTasks(@, function_calls)]

\* CallbackBasedFunctionRegistry.execute_function_async: the dict the task
\* returns
ExecuteFunctionAsyncResult(name, outcome) ==
    IF name \notin available_functions \/ outcome = "raise"
    THEN [status |-> "error", error |-> "exception"]
    ELSE [status |-> "success", result |-> ToolReturn(outcome)]

\* CallbackBasedFunctionRegistry._on_function_completed: the body of the
\* FunctionResponse built from the task's result
CallbackResponseBody(result) ==
    LET result_message == IF "result" \in DOMAIN result THEN result.result
                          ELSE [str |-> "str(result)"]
    IN IF IsStr(result_message) THEN [result |-> result_message]
       ELSE result_message

\* as _execute_function_call, calling whatever the lookup returned
ExecuteFunctionCallBodyNoLookup(name, outcome) ==
    IF outcome = "raise"
    THEN [status |-> "error", message |-> "exception"]
    ELSE IF IsStr(ToolReturn(outcome))
    THEN [content |-> ToolReturn(outcome)]
    ELSE ToolReturn(outcome)

\* ToolCallProcessor._execute_function_call: the body of the
\* FunctionResponse
ExecuteFunctionCallBody(name, outcome) ==
    IF name \notin available_functions
    THEN [status |-> "error", message |-> "not implemented"]
    ELSE IF outcome = "raise"
    THEN [status |-> "error", message |-> "exception"]
    ELSE IF IsStr(ToolReturn(outcome))
    THEN [content |-> ToolReturn(outcome)]
    ELSE ToolReturn(outcome)

FunctionResponse(id, name, response) ==
    [kind |-> "FunctionResponse", id |-> id, name |-> name,
     response |-> response]

\* asyncio.Queue: the items and the count of unfinished tasks
NewQueue == [items |-> <<>>, unfinished |-> 0]
QueuePut(q, item) ==
    [items |-> Append(q.items, item), unfinished |-> q.unfinished + 1]
QueueEmpty(q) == q.items = <<>>

\* the dedup key f"{name}-{response.get('uuid', '')}"
ToolCallId(function_response) ==
    << function_response.name,
       IF "uuid" \in DOMAIN function_response.response
       THEN function_response.response.uuid ELSE "" >>

\* Queue.task_done: ValueError when called more often than get
TaskDone(s) ==
    IF s.queue.unfinished <= 0
    THEN [s EXCEPT !.raised = "ValueError"]
    ELSE [s EXCEPT !.queue.unfinished = @ - 1]

\* one pass of the while loop of _deliver_queued_tool_responses: get, then
\* the try block, then task_done in the finally clause
DeliverOne(s) ==
    LET function_response == Head(s.queue.items)
        s1 == [s EXCEPT !.queue.items = Tail(@)]
        tool_call_id == ToolCallId(function_response)
    IN IF function_response.kind = "FunctionResponse"
       THEN IF tool_call_id \in s1.processed
            THEN \* task_done, continue; the finally clause runs as well
                 TaskDone([TaskDone(s1) EXCEPT
                             !.delivery.skipped = @ + 1])
            ELSE TaskDone([s1 EXCEPT
                     !.itr = TRUE,
                     !.gout = Append(@, [type |-> "tool_response",
                                         id |-> function_response.id,
                                         name |-> function_response.name,
                                         response |->
                                             function_response.response]),
                     !.processed = @ \cup {tool_call_id},
                     !.delivery.sent = @ + 1])
       ELSE TaskDone([s1 EXCEPT
                !.gout = Append(@, [type |-> "client_content",
                                    turns |-> function_response]),
                !.delivery.sent = @ + 1])

RECURSIVE DrainQueue(_)
DrainQueue(s) ==
    IF s.raised # None \/ QueueEmpty(s.queue) THEN s
    ELSE DrainQueue(DeliverOne(s))

\* GeminiResponseHandler._deliver_queued_tool_responses
DeliverQueuedToolResponses(s, trigger_reason) ==
    IF QueueEmpty(s.queue) THEN s
    ELSE LET s0 == [s EXCEPT
                      !.triggers = Append(@, trigger_reason),
                      !.delivery = [trigger |-> trigger_reason,
                                    queued |-> s.queue.items,
                                    sent |-> 0, skipped |-> 0,
                                    first_sent |-> Len(s.gout) + 1,
                                    raised |-> None]]
             s1 == DrainQueue(s0)
             response_count == s1.delivery.sent
         IN IF s1.raised # None
            THEN [s1 EXCEPT !.delivery.raised = s1.raised]
            ELSE IF response_count > 0
            THEN [s1 EXCEPT
                    !.speech.is_gemini_speaking = FALSE,
                    !.speech.pending_tool_responses =
                        Max(0, @ - response_count)]
            ELSE s1

\* as the silence check, without the test of the time since the last audio
CheckSpeechWithoutThreshold(s) ==
    IF ~s.speech.is_gemini_speaking \/ QueueEmpty(s.queue) THEN s
    ELSE IF s.speech.last_audio_timestamp # NoTime
    THEN DeliverQueuedToolResponses(s, "speech_gap_detected")
    ELSE s

\* GeminiResponseHandler._check_speech_completion_and_deliver_responses
CheckSpeechCompletionAndDeliverResponses(s) ==
    IF ~s.speech.is_gemini_speaking \/ QueueEmpty(s.queue) THEN s
    ELSE IF s.speech.last_audio_timestamp # NoTime
            /\ 10 * (now - s.speech.last_audio_timestamp)
                   > SPEECH_COMPLETION_THRESHOLD
    THEN DeliverQueuedToolResponses(s, "speech_gap_detected")
    ELSE s

\* ------------------------------------------------- assistant-stream events
\* An event of session.receive(): has lists the attributes that are set
\* (data, server_content, tool_call, error); the other fields are their
\* values.
Event(has, data, turn_complete, interrupted, function_calls) ==
    [has |-> has, data |-> data, turn_complete |-> turn_complete,
     interrupted |-> interrupted, function_calls |-> function_calls,
     generation_complete |-> FALSE, input_transcription |-> <<>>,
     output_transcription |-> <<>>]

\* Text is a sequence of characters; the empty sequence is the empty str
\* and stands for an absent transcription as well (both are falsy).
Fragments == {<<"a">>, <<"b", "c">>}

\* a server-content event with transcriptions and completion flags
ContentEvent(turn_complete, generation_complete, input, output) ==
    [Event({"server_content"}, <<>>, turn_complete, FALSE, <<>>) EXCEPT
        !.generation_complete = generation_complete,
        !.input_transcription = input,
        !.output_transcription = output]

\* what the assistant stream says about the two speakers
TranscriptEvents ==
    {ContentEvent(t, FALSE, f, <<>>) : t \in BOOLEAN, f \in Fragments}
    \cup {ContentEvent(TRUE, FALSE, <<>>, <<>>),
          ContentEvent(FALSE, TRUE, <<>>, <<>>),
          ContentEvent(FALSE, FALSE, <<>>, <<"x">>),
          ContentEvent(FALSE, TRUE, <<>>, <<"x">>),
          ContentEvent(FALSE, FALSE, <<"a">>, <<"x">>)}

Batches == {<<n>> : n \in ToolNames}
           \cup {<<n, m>> : n \in ToolNames, m \in ToolNames}

Events ==
    {Event({"data"}, d, FALSE, FALSE, <<>>) : d \in AudioData}
    \cup {Event({"server_content"}, <<>>, t, i, <<>>) :
              t \in BOOLEAN, i \in BOOLEAN}
    \cup {Event({"tool_call"}, <<>>, FALSE, FALSE, b) : b \in Batches}
    \cup {Event({"error"}, <<>>, FALSE, FALSE, <<>>)}
    \cup {Event({}, <<>>, FALSE, FALSE, <<>>)}
    \cup {Event({"data", "server_content"}, d, TRUE, FALSE, <<>>) :
              d \in AudioData}
    \cup TranscriptEvents

\* as _handle_interruption, without the test of is_tool_response
HandleInterruptionAlways(s) ==
    IF ws_open
    THEN [s EXCEPT !.cout = Append(@, [type |-> "interrupt_playback"])]
    ELSE [s EXCEPT !.active = FALSE]

\* GeminiResponseHandler._handle_interruption
HandleInterruption(s) ==
    IF ~s.itr
    THEN IF ws_open
         THEN [s EXCEPT !.cout = Append(@, [type |-> "interrupt_playback"])]
         ELSE [s EXCEPT !.active = FALSE]
    ELSE s

\* websocket.send_json of a transcription payload: a failing send is
\* caught and sets active_processing to False
SendPayload(s, payload) ==
    IF ws_open THEN [s EXCEPT !.cout = Append(@, payload)]
    ELSE [s EXCEPT !.active = FALSE]

\* str(uuid.uuid4()): an id that was never handed out before
Uuid4(s) == s.uuids + 1

\* as _process_user_transcription, sending the fragment alone
ProcessUserTranscriptionFragmentOnly(s, ev) ==
    IF ev.input_transcription = <<>> THEN s
    ELSE LET s1 == IF s.uid = NoId
                   THEN [s EXCEPT !.uid = Uuid4(s), !.uuids = Uuid4(s)]
                   ELSE s
             s2 == [s1 EXCEPT !.utext = ev.input_transcription]
         IN SendPayload(s2, [id |-> s2.uid, text |-> s2.utext,
                             sender |-> "user",
                             type |-> "user_transcription_update",
                             is_final |-> FALSE])

\* TranscriptionProcessor._process_user_transcription
ProcessUserTranscription(s, ev) ==
    IF ev.input_transcription = <<>> THEN s
    ELSE LET user_speech_chunk == ev.input_transcription
             s1 == IF s.uid = NoId
                   THEN [s EXCEPT !.uid = Uuid4(s), !.uuids = Uuid4(s),
                                  !.utext = <<>>]
                   ELSE s
             s2 == [s1 EXCEPT !.utext = @ \o user_speech_chunk]
         IN IF s2.utext # <<>>
            THEN SendPayload(s2, [id |-> s2.uid, text |-> s2.utext,
                                  sender |-> "user",
                                  type |-> "user_transcription_update",
                                  is_final |-> FALSE])
            ELSE s2

\* TranscriptionProcessor._process_model_transcription
ProcessModelTranscription(s, ev) ==
    IF ev.output_transcription = <<>> THEN s
    ELSE LET chunk == ev.output_transcription
             s1 == IF s.mid = NoId
                   THEN [s EXCEPT !.mid = Uuid4(s), !.uuids = Uuid4(s),
                                  !.mtext = <<>>]
                   ELSE s
             s2 == [s1 EXCEPT !.mtext = @ \o chunk]
         IN SendPayload(s2, [id |-> s2.mid, text |-> s2.mtext,
                             sender |-> "model",
                             type |-> "model_response_update",
                             is_final |-> FALSE])

\* TranscriptionProcessor._handle_model_generation_complete
HandleModelGenerationComplete(s) ==
    LET s1 == IF s.mid # NoId /\ s.mtext # <<>>
              THEN SendPayload(s, [id |-> s.mid, text |-> s.mtext,
                                   sender |-> "model",
                                   type |-> "model_response_update",
                                   is_final |-> TRUE])
              ELSE s
    IN [s1 EXCEPT !.mid = NoId, !.mtext = <<>>]

\* as _handle_turn_complete, the state of the model's utterance kept
HandleTurnCompleteUserOnly(s) ==
    LET s1 == IF s.uid # NoId /\ s.utext # <<>>
              THEN SendPayload(s, [id |-> s.uid, text |-> s.utext,
                                   sender |-> "user",
                                   type |-> "user_transcription_update",
                                   is_final |-> TRUE])
              ELSE s
    IN [s1 EXCEPT !.uid = NoId, !.utext = <<>>]

\* as _handle_turn_complete, with a final update for the model's utterance
\* as well
HandleTurnCompleteFinalizesModel(s) ==
    LET s1 == IF s.uid # NoId /\ s.utext # <<>>
              THEN SendPayload(s, [id |-> s.uid, text |-> s.utext,
                                   sender |-> "user",
                                   type |-> "user_transcription_update",
                                   is_final |-> TRUE])
              ELSE s
        s2 == IF s1.mid # NoId /\ s1.mtext # <<>>
              THEN SendPayload(s1, [id |-> s1.mid, text |-> s1.mtext,
                                    sender |-> "model",
                                    type |-> "model_response_update",
                                    is_final |-> TRUE])
              ELSE s1
    IN [s2 EXCEPT !.uid = NoId, !.utext = <<>>,
                  !.mid = NoId, !.mtext = <<>>]

\* TranscriptionProcessor._handle_turn_complete
HandleTurnComplete(s) ==
    LET s1 == IF s.uid # NoId /\ s.utext # <<>>
              THEN SendPayload(s, [id |-> s.uid, text |-> s.utext,
                                   sender |-> "user",
                                   type |-> "user_transcription_update",
                                   is_final |-> TRUE])
              ELSE s
    IN [s1 EXCEPT !.uid = NoId, !.utext = <<>>,
                  !.mid = NoId, !.mtext = <<>>]

\* TranscriptionProcessor._handle_completion_events
HandleCompletionEvents(s, ev) ==
    LET s1 == IF ev.generation_complete
              THEN HandleModelGenerationComplete(s) ELSE s
    IN IF ev.turn_complete THEN HandleTurnComplete(s1) ELSE s1

\* TranscriptionProcessor.process_transcriptions
ProcessTranscriptions(s, ev) ==
    HandleCompletionEvents(
        ProcessModelTranscription(ProcessUserTranscription(s, ev), ev), ev)

\* GeminiResponseHandler._handle_server_content; _handle_unhandled_content
\* only prints
HandleServerContent(s, ev) ==
    ProcessTranscriptions(
        IF ev.interrupted THEN HandleInterruption(s) ELSE s, ev)

\* as _handle_error, putting the session back to buffering
HandleErrorResetsReady(s) ==
    IF ws_open
    THEN [s EXCEPT !.ready = FALSE,
                   !.cout = Append(@, [type |-> "text",
                                        text |-> "[ERROR_FROM_GEMINI]"])]
    ELSE [s EXCEPT !.ready = FALSE, !.active = FALSE]

\* as _handle_error, the session ended whether or not the send succeeds
HandleErrorFatal(s) ==
    IF ws_open
    THEN [s EXCEPT !.active = FALSE,
                   !.cout = Append(@, [type |-> "text",
                                        text |-> "[ERROR_FROM_GEMINI]"])]
    ELSE [s EXCEPT !.active = FALSE]

\* GeminiResponseHandler._handle_error
HandleError(s) ==
    IF ws_open
    THEN [s EXCEPT !.cout = Append(@, [type |-> "text",
                                        text |-> "[ERROR_FROM_GEMINI]"])]
    ELSE [s EXCEPT !.active = FALSE]

\* the audio branch of _process_response, under audio_processing_lock
HandleAudio(s, ev) ==
    LET s1 == [s EXCEPT !.speech.is_gemini_speaking = TRUE,
                        !.speech.last_audio_timestamp = now]
    IN ProcessAudioResponse(s1, ev.data)

\* as _process_response, with `if` in the place of every `elif`: each
\* attribute that is set has its handler run
ProcessResponseEveryAttribute(s, ev) ==
    LET s1 == IF "data" \in ev.has
              THEN HandleAudio([s EXCEPT !.handled = Append(@, "audio")], ev)
              ELSE s
        s2 == IF "server_content" \in ev.has
              THEN HandleServerContent(
                       [s1 EXCEPT !.handled = Append(@, "server_content")],
                       ev)
              ELSE s1
        s3 == IF "tool_call" \in ev.has
              THEN ProcessToolCall(
                       [s2 EXCEPT !.handled = Append(@, "tool_call")],
                       ev.function_calls)
              ELSE s2
        s4 == IF "error" \in ev.has
              THEN HandleError([s3 EXCEPT !.handled = Append(@, "error")])
              ELSE s3
    IN IF ev.has = {} THEN [s4 EXCEPT !.handled = Append(@, "unknown")]
       ELSE s4

\* GeminiResponseHandler._process_response: the first attribute that is
\* set decides the handler
ProcessResponse(s, ev) ==
    IF "data" \in ev.has
    THEN HandleAudio([s EXCEPT !.handled = Append(@, "audio")], ev)
    ELSE IF "server_content" \in ev.has
    THEN HandleServerContent(
             [s EXCEPT !.handled = Append(@, "server_content")], ev)
    ELSE IF "tool_call" \in ev.has
    THEN ProcessToolCall([s EXCEPT !.handled = Append(@, "tool_call")],
                         ev.function_calls)
    ELSE IF "error" \in ev.has
    THEN HandleError([s EXCEPT !.handled = Append(@, "error")])
    ELSE [s EXCEPT !.handled = Append(@, "unknown")]

\* as the handling of turn completion, taking the end of the turn for the
\* end of the speech
AfterTurnCompleteResetsSpeaking(s, ev) ==
    IF "server_content" \in ev.has /\ ev.turn_complete
    THEN DeliverQueuedToolResponses(
             [s EXCEPT !.itr = FALSE, !.speech.is_gemini_speaking = FALSE],
             "turn_complete")
    ELSE s

\* handle_gemini_responses 66-71: turn completion
AfterTurnComplete(s, ev) ==
    IF "server_content" \in ev.has /\ ev.turn_complete
    THEN DeliverQueuedToolResponses([s EXCEPT !.itr = FALSE],
                                    "turn_complete")
    ELSE s

\* ----------------------------------------------------------------- Init
\* WebSocketHandler._initialize_session_state, GeminiResponseHandler.__init__
\* and handle_connection up to the start of the two loops.
\* use_callback_pattern is an attribute of ToolCallProcessor that selects
\* one of its two implementations; both are modelled.
NoDelivery == [trigger |-> "none", queued |-> <<>>, sent |-> 0,
               skipped |-> 0, first_sent |-> 0, raised |-> None]
NoCheck == [ran |-> FALSE, is_gemini_speaking |-> FALSE, queued |-> 0,
            last_audio_timestamp |-> NoTime, at |-> 0,
            delivered |-> FALSE, changed |-> FALSE]
NoEvent == [processed |-> FALSE, has |-> {}, handled |-> <<>>,
            triggers |-> <<>>, at |-> 0,
            ev |-> Event({}, <<>>, FALSE, FALSE, <<>>)]

InitRelay ==
    /\ active_processing = TRUE
    /\ client_ready_for_audio = FALSE
    /\ audio_sequence_counter = 0
    /\ gemini_audio_buffer = NewAudioBuffer(MaxBufferSize)
    /\ mic_audio_buffer = NewAudioBuffer(MaxBufferSize)
    /\ current_user_utterance_id = NoId
    /\ accumulated_user_speech_text = <<>>
    /\ current_model_utterance_id = NoId
    /\ accumulated_model_speech_text = <<>>
    /\ uuid_counter = 0
    /\ speech_state = [is_gemini_speaking |-> FALSE,
                       last_audio_timestamp |-> NoTime,
                       pending_tool_responses |-> 0]
    /\ is_tool_response = FALSE
    /\ processed_tool_calls = {}
    /\ tool_results_queue = NewQueue
    /\ use_callback_pattern \in BOOLEAN
    /\ tasks = <<>>
    /\ pc_in = "recv"
    /\ pc_out = "recv"
    /\ had_activity = FALSE
    /\ torn_down = FALSE
    /\ out_exc = None
    /\ now = connection_start_time
    /\ ws_open = TRUE
    /\ n_events = 0
    /\ n_msgs = 0
    /\ client_out = << [type |-> "control", signal |-> "server_ready"] >>
    /\ gemini_out = <<>>
    /\ audio_log = <<>>
    /\ last_delivery = NoDelivery
    /\ last_check = NoCheck
    /\ last_event = NoEvent
    /\ inactive_since = NoTime
    /\ client_log = <<>>

Init ==
    /\ InitRelay
    /\ InitAb
    /\ ab.max_size = 1

\* the fields of s become the state of the session
Commit(s) ==
    /\ active_processing' = s.active
    /\ client_ready_for_audio' = s.ready
    /\ audio_sequence_counter' = s.counter
    /\ gemini_audio_buffer' = s.gbuf
    /\ mic_audio_buffer' = s.mbuf
    /\ current_user_utterance_id' = s.uid
    /\ accumulated_user_speech_text' = s.utext
    /\ current_model_utterance_id' = s.mid
    /\ accumulated_model_speech_text' = s.mtext
    /\ uuid_counter' = s.uuids
    /\ speech_state' = s.speech
    /\ is_tool_response' = s.itr
    /\ processed_tool_calls' = s.processed
    /\ tool_results_queue' = s.queue
    /\ tasks' = s.tasks
    /\ client_out' = s.cout
    /\ gemini_out' = s.gout
    /\ audio_log' = s.alog
    /\ last_delivery' = s.delivery
    /\ inactive_since' = IF active_processing /\ ~s.active THEN now
                         ELSE inactive_since

\* ------------------------------------------------------ the outbound loop
\* GeminiResponseHandler.handle_gemini_responses: one pass of the body of
\* `async for response in self.session.receive()`
LoopBody(s, ev) ==
    LET s1 == ProcessResponse(s, ev)
        s2 == AfterTurnComplete(s1, ev)
    IN IF s2.raised # None THEN s2
       ELSE CheckSpeechCompletionAndDeliverResponses(s2)

\* what the silence check of this pass saw and did
CheckRecord(s2, s3) ==
    [ran |-> TRUE,
     is_gemini_speaking |-> s2.speech.is_gemini_speaking,
     queued |-> Len(s2.queue.items),
     last_audio_timestamp |-> s2.speech.last_audio_timestamp,
     at |-> now,
     delivered |-> Len(s3.triggers) > Len(s2.triggers),
     changed |-> s3 # s2]

OutEvent(ev) ==
    /\ pc_out = "recv"
    /\ ~torn_down
    /\ n_events < MaxEvents
    /\ Len(tasks) + Len(ev.function_calls) <= MaxCalls
    /\ n_events' = n_events + 1
    /\ had_activity' = TRUE
    /\ IF ~active_processing
       THEN \* line 61: break, then the while condition fails
            /\ pc_out' = "done"
            /\ UNCHANGED <<session_vars, handler_vars, out_vars, hist_vars,
                           out_exc>>
       ELSE LET s2 == AfterTurnComplete(ProcessResponse(Ctx, ev), ev)
                s3 == LoopBody(Ctx, ev)
                \* the finally clause sets active_processing to False when
                \* the loop ends, by an exception or by the while condition
                final == IF s3.raised # None THEN [s3 EXCEPT !.active = FALSE]
                         ELSE s3
            IN /\ Commit(final)
               /\ out_exc' = s3.raised
               /\ pc_out' = IF final.active THEN "recv" ELSE "done"
               /\ last_event' = [processed |-> TRUE, has |-> ev.has,
                                 handled |-> s3.handled,
                                 triggers |-> s3.triggers, at |-> now,
                                 ev |-> ev]
               /\ last_check' = IF s2.raised # None THEN NoCheck
                                ELSE CheckRecord(s2, s3)
               /\ UNCHANGED use_callback_pattern
    /\ UNCHANGED <<pc_in, torn_down, now, ws_open, n_msgs, client_log,
                   ab_vars>>

\* session.receive() ends without a further event: after a pass with no
\* event the loop sleeps 0.1 s, otherwise it starts the next pass
OutEndOfPass ==
    /\ pc_out = "recv"
    /\ ~torn_down
    /\ IF ~had_activity /\ active_processing
       THEN pc_out' = "sleep" /\ UNCHANGED had_activity
       ELSE /\ pc_out' = IF active_processing THEN "recv" ELSE "done"
            /\ had_activity' = FALSE
    /\ UNCHANGED <<session_vars, handler_vars, pc_in, torn_down,
                   out_exc, env_vars, out_vars, hist_vars, ab_vars>>

\* the idle sleep is over: the while condition is evaluated
OutWake ==
    /\ pc_out = "sleep"
    /\ ~torn_down
    /\ pc_out' = IF active_processing THEN "recv" ELSE "done"
    /\ had_activity' = FALSE
    /\ UNCHANGED <<session_vars, handler_vars, pc_in, torn_down,
                   out_exc, env_vars, out_vars, hist_vars, ab_vars>>

\* as the end of the stream, the loop left at its receive
OutStreamClosedKeepsLoop ==
    /\ pc_out = "recv"
    /\ ~torn_down
    /\ active_processing
    /\ active_processing' = FALSE
    /\ inactive_since' = now
    /\ UNCHANGED <<client_ready_for_audio, audio_sequence_counter,
                   gemini_audio_buffer, mic_audio_buffer, utterance_vars,
                   handler_vars, loop_vars, env_vars, out_vars, audio_log,
                   last_delivery, last_check, last_event, client_log,
                   ab_vars>>

\* session.receive() raises ConnectionClosedOK
OutStreamClosed ==
    /\ pc_out = "recv"
    /\ ~torn_down
    /\ pc_out' = "done"
    /\ active_processing' = FALSE
    /\ inactive_since' = IF active_processing THEN now ELSE inactive_since
    /\ UNCHANGED <<client_ready_for_audio, audio_sequence_counter,
                   gemini_audio_buffer, mic_audio_buffer, utterance_vars, handler_vars,
                   pc_in, had_activity, torn_down, out_exc,
                   env_vars, out_vars, audio_log, last_delivery, last_check,
                   last_event, client_log, ab_vars>>

\* ------------------------------------------------------- the inbound loop
\* what the client sends: text frames and binary frames
ClientMessages ==
    {[kind |-> "text", text |-> t, data |-> <<>>] :
         t \in {"CLIENT_AUDIO_READY", "hello"}}
    \cup {[kind |-> "bytes", text |-> "", data |-> d] :
              d \in {<<>>, <<5, 5>>}}

\* ClientInputHandler._handle_client_ready_signal: the chunks of
\* mic_audio_buffer go to the client websocket, a failing send is caught
\* for each chunk
HandleClientReadySignal(s) ==
    LET f == FlushAll(s.mbuf)
    IN [s EXCEPT !.ready = TRUE,
                 !.mbuf = f.b,
                 !.cout = IF ws_open THEN @ \o FlushAllFrames(f.chunks)
                          ELSE @]

\* as _handle_text_prompt, the session set active again
HandleTextPromptReactivates(s, message_text) ==
    [s EXCEPT !.active = TRUE,
              !.gout = Append(@, [type |-> "client_content",
                                  text |-> message_text])]

\* ClientInputHandler._handle_text_prompt
HandleTextPrompt(s, message_text) ==
    [s EXCEPT !.gout = Append(@, [type |-> "client_content",
                                  text |-> message_text])]

\* ClientInputHandler._handle_text_message
HandleTextMessage(s, message_text) ==
    IF message_text = "CLIENT_AUDIO_READY" THEN HandleClientReadySignal(s)
    ELSE HandleTextPrompt(s, message_text)

\* as _handle_audio_data, without the test for the empty chunk
HandleAudioDataForwardsEmpty(s, audio_chunk) ==
    [s EXCEPT !.gout = Append(@, [type |-> "realtime_input",
                                  data |-> audio_chunk])]

\* ClientInputHandler._handle_audio_data
HandleAudioData(s, audio_chunk) ==
    IF audio_chunk = <<>> THEN s
    ELSE [s EXCEPT !.gout = Append(@, [type |-> "realtime_input",
                                       data |-> audio_chunk])]

\* ClientInputHandler.handle_client_input: websocket.receive() returns a
\* message within the 0.2 s timeout; the message is handled and the while
\* condition is evaluated
Receive(m, limit) ==
    /\ pc_in = "recv"
    /\ ~torn_down
    /\ ws_open
    /\ n_msgs < limit
    /\ n_msgs' = n_msgs + 1
    /\ client_log' = Append(client_log,
                            [kind |-> m.kind, text |-> m.text,
                             data |-> m.data,
                             ready |-> client_ready_for_audio])
    /\ LET s == IF m.kind = "text" THEN HandleTextMessage(Ctx, m.text)
                ELSE HandleAudioData(Ctx, m.data)
       IN /\ Commit(s)
          /\ pc_in' = IF s.active THEN "recv" ELSE "done"
    /\ UNCHANGED <<use_callback_pattern, pc_out, had_activity, torn_down,
                   out_exc, now, ws_open, n_events, last_check, last_event,
                   ab_vars>>

InMessage(m) == Receive(m, MaxClientMsgs)

\* asyncio.TimeoutError after 0.2 s: break when active_processing is
\* False; otherwise the loop continues and nothing changes
InTimeout ==
    /\ pc_in = "recv"
    /\ ~torn_down
    /\ ~active_processing
    /\ pc_in' = "done"
    /\ UNCHANGED <<session_vars, handler_vars, pc_out, had_activity,
                   torn_down, out_exc, env_vars, out_vars, hist_vars,
                   ab_vars>>

\* websocket.receive() raises on the closed connection (ConnectionClosedOK
\* or another exception): active_processing = False, break
InReceiveError ==
    /\ pc_in = "recv"
    /\ ~torn_down
    /\ ~ws_open
    /\ pc_in' = "done"
    /\ active_processing' = FALSE
    /\ inactive_since' = IF active_processing THEN now ELSE inactive_since
    /\ UNCHANGED <<client_ready_for_audio, audio_sequence_counter,
                   gemini_audio_buffer, mic_audio_buffer, utterance_vars, handler_vars,
                   pc_out, had_activity, torn_down, out_exc, env_vars,
                   out_vars, audio_log, last_delivery, last_check,
                   last_event, client_log, ab_vars>>

\* the handler of the message raises, the send to the assistant session
\* having failed (a text prompt or a chunk that is not empty; the handler
\* of the ready signal catches what its sends raise): except Exception,
\* active_processing = False, break
InHandlerError(m) ==
    /\ pc_in = "recv"
    /\ ~torn_down
    /\ ws_open
    /\ n_msgs < MaxInbound
    /\ IF m.kind = "text" THEN m.text # "CLIENT_AUDIO_READY"
       ELSE m.data # <<>>
    /\ n_msgs' = n_msgs + 1
    /\ client_log' = Append(client_log,
                            [kind |-> m.kind, text |-> m.text,
                             data |-> m.data,
                             ready |-> client_ready_for_audio])
    /\ pc_in' = "done"
    /\ active_processing' = FALSE
    /\ inactive_since' = IF active_processing THEN now ELSE inactive_since
    /\ UNCHANGED <<client_ready_for_audio, audio_sequence_counter,
                   gemini_audio_buffer, mic_audio_buffer, utterance_vars,
                   handler_vars, pc_out, had_activity, torn_down, out_exc,
                   now, ws_open, n_events, out_vars, audio_log,
                   last_delivery, last_check, last_event, ab_vars>>

\* the client goes away: every later send to it fails
ClientDisconnect ==
    /\ ws_open
    /\ ~torn_down
    /\ ws_open' = FALSE
    /\ UNCHANGED <<session_vars, handler_vars, loop_vars, now, n_events,
                   n_msgs, out_vars, hist_vars, ab_vars>>

\* ----------------------------------------------------------- tool tasks
SetTask(c, state, result) ==
    tasks' = [tasks EXCEPT ![c].state = state, ![c].result = result]

\* the task of call c has run; an implementation that exists was called
\* and had the outcome
EndTask(c, state, result, outcome) ==
    tasks' = [tasks EXCEPT
                ![c].state = state, ![c].result = result,
                ![c].outcome = IF tasks[c].name \in available_functions
                               THEN outcome ELSE "none"]

\* CallbackBasedFunctionRegistry.execute_function_async: the task of call
\* c ends with its result dict
ExecuteFunctionAsync(c, outcome) ==
    /\ use_callback_pattern
    /\ c \in DOMAIN tasks
    /\ tasks[c].state = "running"
    /\ EndTask(c, "completed",
               ExecuteFunctionAsyncResult(tasks[c].name, outcome), outcome)
    /\ UNCHANGED <<session_vars, speech_state, is_tool_response,
                   processed_tool_calls, tool_results_queue,
                   use_callback_pattern, loop_vars, env_vars, out_vars,
                   hist_vars, ab_vars>>

\* CallbackBasedFunctionRegistry._on_function_completed, the done callback
\* of the task: the response goes to session.send_tool_response; once the
\* session is closed the send raises and the exception is caught
OnFunctionCompleted(c) ==
    /\ use_callback_pattern
    /\ c \in DOMAIN tasks
    /\ tasks[c].state = "completed"
    /\ SetTask(c, "done", tasks[c].result)
    /\ gemini_out' =
         IF torn_down THEN gemini_out
         ELSE Append(gemini_out,
                     [type |-> "tool_response", id |-> c,
                      name |-> tasks[c].name,
                      response |-> CallbackResponseBody(tasks[c].result)])
    /\ UNCHANGED <<session_vars, speech_state, is_tool_response,
                   processed_tool_calls, tool_results_queue,
                   use_callback_pattern, loop_vars, env_vars, client_out,
                   hist_vars, ab_vars>>

\* ToolCallProcessor._execute_and_respond_individual: the task of call c
\* runs _execute_function_call and puts the response on the results queue
ExecuteAndRespondIndividual(c, outcome) ==
    /\ ~use_callback_pattern
    /\ c \in DOMAIN tasks
    /\ tasks[c].state = "running"
    /\ LET body == ExecuteFunctionCallBody(tasks[c].name, outcome)
       IN /\ EndTask(c, "done", body, outcome)
          /\ tool_results_queue' =
                 QueuePut(tool_results_queue,
                          FunctionResponse(c, tasks[c].name, body))
    /\ UNCHANGED <<session_vars, speech_state, is_tool_response,
                   processed_tool_calls, use_callback_pattern, loop_vars,
                   env_vars, out_vars, hist_vars, ab_vars>>

\* ------------------------------------------------- connection and clock
\* WebSocketHandler.handle_connection: gather returns when both loops have
\* ended or one of them raised; _cleanup_tasks then sets active_processing
\* to False and cancels the loop that still runs.  The tool tasks are not
\* cancelled.
CleanupTasks ==
    /\ ~torn_down
    /\ (pc_in = "done" /\ pc_out = "done") \/ out_exc # None
    /\ torn_down' = TRUE
    /\ pc_in' = "done"
    /\ pc_out' = "done"
    /\ active_processing' = FALSE
    /\ inactive_since' = IF active_processing THEN now ELSE inactive_since
    /\ UNCHANGED <<client_ready_for_audio, audio_sequence_counter,
                   gemini_audio_buffer, mic_audio_buffer, utterance_vars, handler_vars,
                   had_activity, out_exc, env_vars, out_vars,
                   audio_log, last_delivery, last_check, last_event,
                   client_log, ab_vars>>

\* a second passes.  By then a receive of the inbound loop has timed out
\* (0.2 s), so that loop has left if active_processing was False, and the
\* 0.1 s sleep of the outbound loop is over.
Tick ==
    /\ now < MaxTime
    /\ ~torn_down
    /\ pc_in = "recv" => active_processing
    /\ pc_out # "sleep"
    /\ now' = now + 1
    /\ UNCHANGED <<session_vars, handler_vars, pc_in, pc_out, had_activity,
                   torn_down, out_exc, ws_open, n_events, n_msgs, out_vars,
                   hist_vars, ab_vars>>

NextRelay ==
    \/ \E ev \in Events : OutEvent(ev)
    \/ OutEndOfPass
    \/ OutWake
    \/ OutStreamClosed
    \/ \E m \in ClientMessages : InMessage(m)
    \/ InTimeout
    \/ InReceiveError
    \/ ClientDisconnect
    \/ \E c \in 1..MaxCalls, o \in ToolOutcomes : ExecuteFunctionAsync(c, o)
    \/ \E c \in 1..MaxCalls : OnFunctionCompleted(c)
    \/ \E c \in 1..MaxCalls, o \in ToolOutcomes :
           ExecuteAndRespondIndividual(c, o)
    \/ CleanupTasks
    \/ Tick

Next == NextRelay

\* the whole relay
Spec == Init /\ [][Next]_vars

\* The relay with an assistant stream that sends audio, plain server
\* content and errors, and calls no tool; the client sends the ready
\* signal or nothing.
AudioPathEvents ==
    {ev \in Events : ev.has \in {{"data"}, {"error"}}}
    \cup {Event({"server_content"}, <<>>, FALSE, FALSE, <<>>)}

AudioPathMessages ==
    {m \in ClientMessages : m.text = "CLIENT_AUDIO_READY"}

NextAudio ==
    \/ \E ev \in AudioPathEvents : OutEvent(ev)
    \/ OutEndOfPass
    \/ OutWake
    \/ OutStreamClosed
    \/ \E m \in AudioPathMessages : InMessage(m)
    \/ InTimeout
    \/ InReceiveError
    \/ ClientDisconnect
    \/ CleanupTasks
    \/ Tick

InitAudio == Init /\ use_callback_pattern = TRUE

SpecAudio == InitAudio /\ [][NextAudio]_vars

\* The relay with an assistant stream that speaks, calls tools and
\* completes turns, and a client that only listens.
ToolPathEvents ==
    {Event({"data"}, <<7, 7>>, FALSE, FALSE, <<>>),
     Event({"server_content"}, <<>>, TRUE, FALSE, <<>>),
     Event({"server_content"}, <<>>, FALSE, FALSE, <<>>)}
    \cup {ev \in Events : ev.has = {"tool_call"}}

NextTools ==
    \/ \E ev \in ToolPathEvents : OutEvent(ev)
    \/ \E c \in 1..MaxCalls, o \in ToolOutcomes : ExecuteFunctionAsync(c, o)
    \/ \E c \in 1..MaxCalls : OnFunctionCompleted(c)
    \/ \E c \in 1..MaxCalls, o \in ToolOutcomes :
           ExecuteAndRespondIndividual(c, o)
    \/ CleanupTasks
    \/ Tick

SpecTools == Init /\ [][NextTools]_vars

\* The relay with _process_tool_call_original (use_callback_pattern
\* False), the implementation that puts the responses on the results
\* queue: the assistant speaks, calls take_a_nap once or twice in an
\* event, or a tool that does not exist, and completes turns; a call
\* raises (a response without uuid) or returns a dict with a uuid.
FallbackEvents ==
    {Event({"data"}, <<7, 7>>, FALSE, FALSE, <<>>),
     Event({"server_content"}, <<>>, TRUE, FALSE, <<>>),
     Event({"server_content"}, <<>>, FALSE, FALSE, <<>>),
     Event({"tool_call"}, <<>>, FALSE, FALSE, <<"take_a_nap">>),
     Event({"tool_call"}, <<>>, FALSE, FALSE, <<"no_such_tool">>),
     Event({"tool_call"}, <<>>, FALSE, FALSE,
           <<"take_a_nap", "take_a_nap">>)}

FallbackOutcomes == {"raise", "dict_uuid"}

NextFallback ==
    \/ \E ev \in FallbackEvents : OutEvent(ev)
    \/ \E c \in 1..MaxCalls, o \in FallbackOutcomes :
           ExecuteAndRespondIndividual(c, o)
    \/ CleanupTasks
    \/ Tick

InitFallback == Init /\ use_callback_pattern = FALSE

SpecFallback == InitFallback /\ [][NextFallback]_vars

\* The relay with an assistant stream that reports what the two speakers
\* say and completes generations and turns, and a client that listens or
\* goes away.
NextTranscript ==
    \/ \E ev \in TranscriptEvents : OutEvent(ev)
    \/ OutStreamClosed
    \/ ClientDisconnect
    \/ InReceiveError
    \/ CleanupTasks

SpecTranscript == InitAudio /\ [][NextTranscript]_vars

\* The relay with an assistant stream that calls tools, one or two in an
\* event, and completes turns; a tool raises or returns a dict.  Both
\* implementations of process_tool_call.
CallEvents ==
    {Event({"tool_call"}, <<>>, FALSE, FALSE, b) :
         b \in {<<"take_a_nap">>, <<"take_a_nap", "take_a_nap">>,
                <<"no_such_tool", "take_a_nap">>}}
    \cup {Event({"server_content"}, <<>>, t, FALSE, <<>>) : t \in BOOLEAN}

CallOutcomes == {"raise", "dict"}

NextCalls ==
    \/ \E ev \in CallEvents : OutEvent(ev)
    \/ \E c \in 1..MaxCalls, o \in CallOutcomes : ExecuteFunctionAsync(c, o)
    \/ \E c \in 1..MaxCalls : OnFunctionCompleted(c)
    \/ \E c \in 1..MaxCalls, o \in CallOutcomes :
           ExecuteAndRespondIndividual(c, o)

SpecCalls == Init /\ [][NextCalls]_vars

\* The relay on the fallback path with an assistant stream that calls
\* take_a_nap, completes turns and reports interruptions, with and without
\* words of the user, and a client that listens or goes away.
InterruptEvents ==
    {Event({"tool_call"}, <<>>, FALSE, FALSE, <<"take_a_nap">>),
     Event({"server_content"}, <<>>, TRUE, FALSE, <<>>),
     Event({"server_content"}, <<>>, FALSE, TRUE, <<>>),
     [ContentEvent(FALSE, FALSE, <<"a">>, <<>>) EXCEPT !.interrupted = TRUE],
     [ContentEvent(TRUE, FALSE, <<"a">>, <<"x">>) EXCEPT
         !.interrupted = TRUE],
     ContentEvent(FALSE, FALSE, <<"a">>, <<>>)}

NextInterrupt ==
    \/ \E ev \in InterruptEvents : OutEvent(ev)
    \/ \E c \in 1..MaxCalls : ExecuteAndRespondIndividual(c, "dict")
    \/ ClientDisconnect
    \/ CleanupTasks

SpecInterrupt == InitFallback /\ [][NextInterrupt]_vars

\* The relay on the fallback path with an assistant stream that speaks,
\* falls silent, is interrupted, calls take_a_nap and completes turns.
SpeechEvents ==
    {Event({"data"}, <<7, 7>>, FALSE, FALSE, <<>>),
     Event({"server_content"}, <<>>, TRUE, FALSE, <<>>),
     Event({"server_content"}, <<>>, FALSE, TRUE, <<>>),
     Event({"tool_call"}, <<>>, FALSE, FALSE, <<"take_a_nap">>)}

NextSpeech ==
    \/ \E ev \in SpeechEvents : OutEvent(ev)
    \/ \E c \in 1..MaxCalls : ExecuteAndRespondIndividual(c, "dict_uuid")
    \/ Tick

SpecSpeech == InitFallback /\ [][NextSpeech]_vars

\* The relay on the callback path with an assistant stream that calls
\* take_a_nap and completes turns, and a client that goes away while the
\* tools run.
LateEvents ==
    {Event({"tool_call"}, <<>>, FALSE, FALSE, <<"take_a_nap">>),
     Event({"tool_call"}, <<>>, FALSE, FALSE,
           <<"take_a_nap", "take_a_nap">>),
     Event({"server_content"}, <<>>, TRUE, FALSE, <<>>)}

NextLate ==
    \/ \E ev \in LateEvents : OutEvent(ev)
    \/ \E c \in 1..MaxCalls, o \in CallOutcomes : ExecuteFunctionAsync(c, o)
    \/ \E c \in 1..MaxCalls : OnFunctionCompleted(c)
    \/ ClientDisconnect
    \/ InReceiveError
    \/ CleanupTasks

SpecLate == InitAudio /\ [][NextLate]_vars

\* The relay with an assistant stream that reports errors between chunks
\* of audio, and a client that may go away.
ErrorEvents ==
    {Event({"error"}, <<>>, FALSE, FALSE, <<>>),
     Event({"data"}, <<7, 7>>, FALSE, FALSE, <<>>)}

NextError ==
    \/ \E ev \in ErrorEvents : OutEvent(ev)
    \/ \E m \in AudioPathMessages : InMessage(m)
    \/ ClientDisconnect
    \/ InReceiveError
    \/ CleanupTasks
    \/ Tick

SpecError == InitAudio /\ [][NextError]_vars

\* The relay with an assistant stream whose events have one attribute set,
\* several, or none.
DispatchEvents ==
    {Event({"data"}, <<7, 7>>, FALSE, FALSE, <<>>),
     [Event({"data", "server_content"}, <<7, 7>>, TRUE, TRUE, <<>>) EXCEPT
         !.input_transcription = <<"a">>],
     Event({"data", "tool_call"}, <<7, 7>>, FALSE, FALSE, <<"take_a_nap">>),
     ContentEvent(FALSE, FALSE, <<"a">>, <<"x">>),
     [Event({"server_content", "tool_call"}, <<>>, FALSE, FALSE,
            <<"take_a_nap">>) EXCEPT !.output_transcription = <<"x">>],
     Event({"tool_call"}, <<>>, FALSE, FALSE, <<"take_a_nap">>),
     Event({"tool_call", "error"}, <<>>, FALSE, FALSE, <<"take_a_nap">>),
     Event({"error"}, <<>>, FALSE, FALSE, <<>>),
     Event({}, <<>>, FALSE, FALSE, <<>>)}

NextDispatch ==
    \/ \E ev \in DispatchEvents : OutEvent(ev)
    \/ \E m \in AudioPathMessages : InMessage(m)
    \/ ClientDisconnect
    \/ InReceiveError
    \/ CleanupTasks

SpecDispatch == InitAudio /\ [][NextDispatch]_vars

\* The relay on the fallback path with an outbound loop that is scheduled
\* fairly: a pass of session.receive() that has ended is followed by the
\* next, the idle sleep ends, tool tasks end and time passes.  Nothing
\* obliges the assistant stream to produce an event.
QueueEvents ==
    {Event({"tool_call"}, <<>>, FALSE, FALSE, <<"take_a_nap">>),
     Event({"data"}, <<7, 7>>, FALSE, FALSE, <<>>),
     Event({"server_content"}, <<>>, TRUE, FALSE, <<>>)}

NextQueue ==
    \/ \E ev \in QueueEvents : OutEvent(ev)
    \/ \E c \in 1..MaxCalls : ExecuteAndRespondIndividual(c, "dict")
    \/ OutEndOfPass
    \/ OutWake
    \/ Tick
    \/ CleanupTasks

SpecQueue ==
    /\ InitFallback
    /\ [][NextQueue]_vars
    /\ WF_vars(OutEndOfPass)
    /\ WF_vars(OutWake)
    /\ WF_vars(Tick)
    /\ WF_vars(\E c \in 1..MaxCalls : ExecuteAndRespondIndividual(c, "dict"))

\* The two loops with every way they end: the streams close, a handler
\* raises, the other loop has cleared the flag.
LoopEvents ==
    {Event({"tool_call"}, <<>>, FALSE, FALSE, <<"take_a_nap">>),
     Event({"server_content"}, <<>>, TRUE, FALSE, <<>>),
     Event({"data"}, <<7, 7>>, FALSE, FALSE, <<>>)}

LoopMessages ==
    {[kind |-> "text", text |-> "hello", data |-> <<>>],
     [kind |-> "bytes", text |-> "", data |-> <<5, 5>>]}

NextLoops ==
    \/ \E ev \in LoopEvents : OutEvent(ev)
    \/ \E c \in 1..MaxCalls : ExecuteAndRespondIndividual(c, "dict")
    \/ OutStreamClosed
    \/ \E m \in LoopMessages : InMessage(m)
    \/ \E m \in LoopMessages : InHandlerError(m)
    \/ InTimeout
    \/ InReceiveError
    \/ ClientDisconnect
    \/ CleanupTasks

SpecLoops == InitFallback /\ [][NextLoops]_vars

\* The relay with an assistant stream that only speaks and a client that
\* sends the ready signal, or nothing, and goes away.
SendFailEvents == {Event({"data"}, <<7, 7>>, FALSE, FALSE, <<>>)}

NextSendFail ==
    \/ \E ev \in SendFailEvents : OutEvent(ev)
    \/ \E m \in AudioPathMessages : InMessage(m)
    \/ ClientDisconnect
    \/ InReceiveError
    \/ CleanupTasks
    \/ Tick

SpecSendFail == InitAudio /\ [][NextSendFail]_vars

\* The relay with a client that sends text and audio and an assistant
\* stream that sends nothing and may close.
NextInbound ==
    \/ \E m \in ClientMessages : Receive(m, MaxInbound)
    \/ InTimeout
    \/ InReceiveError
    \/ ClientDisconnect
    \/ OutStreamClosed
    \/ CleanupTasks

SpecInbound == InitAudio /\ [][NextInbound]_vars

\* the stand-alone AudioBuffer
NextAb ==
    \/ \E d \in AudioData : AbAdd(d, NoMetadata) /\ UNCHANGED relay_vars
    \/ \E d \in AudioData, n \in {7} :
           AbAdd(d, [sequence |-> n]) /\ UNCHANGED relay_vars
    \/ AbFlush /\ UNCHANGED relay_vars

InitAbOnly ==
    /\ InitRelay
    /\ use_callback_pattern
    /\ InitAb

SpecAb == InitAbOnly /\ [][NextAb]_vars

\* get_pressure_level on buffers of every fill
NextPressure == AbGetPressureLevel /\ UNCHANGED relay_vars

InitPressureOnly ==
    /\ InitRelay
    /\ use_callback_pattern
    /\ InitPressure

SpecPressure == InitPressureOnly /\ [][NextPressure]_vars

\* ================================================================ claims

\* ---- C1: after every add on a buffer of capacity N the buffer holds at
\* most N chunks, the chunks the call evicted are the oldest ones in FIFO
\* order, and the chunks kept are the newest N added since the last flush,
\* in insertion order.
C1_BoundedFifo ==
    /\ Len(ab.buffer) <= ab.max_size
    /\ ab.buffer = LastN(ab_added, ab.max_size)
    /\ ab_ret.op = "add" =>
           /\ ab_ret.removed \o ab.buffer
                  = Append(ab_ret.before, ab_ret.chunk)
           /\ Len(ab_ret.removed)
                  = Max(0, Len(ab_ret.before) + 1 - ab.max_size)

\* an add on a full buffer of capacity 2 or more evicted its oldest chunk
C1_Witness ==
    /\ ab_ret.op = "add"
    /\ ab.max_size >= 2
    /\ Len(ab_added) > ab.max_size
    /\ ab_ret.removed = <<ab_ret.before[1]>>
    /\ Len(ab.buffer) = ab.max_size

\* ---- C2: a chunk that was buffered and not evicted is sent to the client
\* once the client is ready: when the session has gone on to send audio
\* live, no chunk is left behind in the assistant-side buffer.
C2_NoChunkLeftBuffered ==
    (\E i \in DOMAIN audio_log : audio_log[i].path = "live")
        => gemini_audio_buffer.buffer = <<>>

\* ---- C3: the number of tool responses sent to the assistant stream grows
\* only in a step of the delivery routine, which takes them off the results
\* queue; the step in which a tool task ends puts one response on the
\* queue and sends nothing.
ToolResponsesSent(out) ==
    Cardinality({i \in DOMAIN out : out[i].type = "tool_response"})

C3_OnlyDeliverySends ==
    [][ /\ ToolResponsesSent(gemini_out') > ToolResponsesSent(gemini_out)
           => Len(tool_results_queue'.items) < Len(tool_results_queue.items)
        /\ \A c \in DOMAIN tasks :
             (tasks[c].state # "done" /\ tasks'[c].state = "done")
                => /\ gemini_out' = gemini_out
                   /\ Len(tool_results_queue'.items)
                          = Len(tool_results_queue.items) + 1 ]_vars

C5_SequenceNumbers ==
    /\ audio_sequence_counter = Len(audio_log)
    /\ \A i \in DOMAIN audio_log : audio_log[i].sequence = i

\* audio was buffered, the client sent a message, audio was sent live
C5_Witness ==
    /\ Len(audio_log) >= 3
    /\ audio_log[1].path = "buffered"
    /\ audio_log[Len(audio_log)].path = "live"
    /\ n_msgs > 0

\* a metadata message of a chunk flushed by the timeout
IsFlushed(m) == "flushed_by_timeout" \in DOMAIN m /\ m.flushed_by_timeout

\* the frames appended to the client's stream by a step
NewFrames == SubSeq(client_out', Len(client_out) + 1, Len(client_out'))

\* an event with the given attribute is processed by this step
Processes(attr) ==
    /\ n_events' = n_events + 1
    /\ active_processing
    /\ attr \in last_event'.has

TimedOut == 10 * (now - connection_start_time) > BUFFER_TIMEOUT_SECONDS

\* ---- C6 as claimed: with chunks buffered and no ready signal, an event
\* of any kind processed more than BUFFER_TIMEOUT_SECONDS after the
\* connection started leaves the client ready and the buffer flushed.
C6_AnyEventFlushes ==
    ( /\ last_event.processed
      /\ 10 * (last_event.at - connection_start_time)
             > BUFFER_TIMEOUT_SECONDS
      /\ \E i \in DOMAIN audio_log : audio_log[i].path = "buffered" )
        => /\ client_ready_for_audio
           /\ gemini_audio_buffer.buffer = <<>>

\* ---- C6 amended: an audio event processed more than
\* BUFFER_TIMEOUT_SECONDS after the connection started while the client is
\* not ready sets client_ready_for_audio and empties the buffer; while the
\* client is connected every chunk that was buffered is sent in arrival
\* order, its metadata flagged flushed_by_timeout ahead of its bytes.  An
\* event without audio leaves the flag and the buffer as they are.
C6_AudioEventFlushes ==
    [][ /\ (Processes("data") /\ ~client_ready_for_audio /\ TimedOut) =>
              LET old == gemini_audio_buffer.buffer
              IN /\ client_ready_for_audio'
                 /\ gemini_audio_buffer'.buffer = <<>>
                 /\ ws_open =>
                      /\ Len(NewFrames) >= 2 * Len(old)
                      /\ \A k \in 1..Len(old) :
                           /\ NewFrames[2 * k - 1].type = "audio_metadata"
                           /\ NewFrames[2 * k - 1].sequence
                                  = old[k].metadata.sequence
                           /\ NewFrames[2 * k - 1].flushed_by_timeout
                           /\ NewFrames[2 * k].type = "bytes"
                           /\ NewFrames[2 * k].data = old[k].audio_data
        /\ (n_events' = n_events + 1 /\ "data" \notin last_event'.has) =>
              /\ client_ready_for_audio' = client_ready_for_audio
              /\ gemini_audio_buffer' = gemini_audio_buffer ]_vars

\* two buffered chunks were flushed by the timeout, no ready signal came
C6_Witness ==
    /\ n_msgs = 0
    /\ client_ready_for_audio
    /\ gemini_audio_buffer.buffer = <<>>
    /\ \E i \in DOMAIN client_out :
         /\ i + 3 <= Len(client_out)
         /\ client_out[i].type = "audio_metadata"
         /\ IsFlushed(client_out[i])
         /\ client_out[i].sequence = 1
         /\ client_out[i + 1].type = "bytes"
         /\ client_out[i + 2].type = "audio_metadata"
         /\ IsFlushed(client_out[i + 2])
         /\ client_out[i + 2].sequence = 2
         /\ client_out[i + 3].type = "bytes"

\* ---- C7: once client_ready_for_audio is true no step adds a chunk to the
\* assistant-side buffer, and every audio event is sent live.
C7_NoBufferingOnceReady ==
    [][ client_ready_for_audio =>
          /\ gemini_audio_buffer' = gemini_audio_buffer
          /\ \A i \in DOMAIN audio_log' :
               i > Len(audio_log) => audio_log'[i].path = "live" ]_vars

\* the ready signal came before any audio, and audio was then sent live
C7_Witness ==
    /\ client_ready_for_audio
    /\ n_msgs = 1
    /\ Len(audio_log) >= 2
    /\ \A i \in DOMAIN audio_log : audio_log[i].path = "live"
    /\ gemini_audio_buffer.buffer = <<>>

\* ---- C8: in the client's stream the bytes of a chunk come directly
\* after the audio_metadata message of that chunk (its sequence number,
\* its size), and for a live chunk the playback-state message with the
\* same sequence number comes directly before the metadata.
C8_MetadataBeforeBytes ==
    \A i \in DOMAIN client_out :
        client_out[i].type = "bytes" =>
            /\ i > 1
            /\ client_out[i - 1].type = "audio_metadata"
            /\ client_out[i - 1].size_bytes = Len(client_out[i].data)
            /\ client_out[i - 1].sequence \in DOMAIN audio_log
            /\ audio_log[client_out[i - 1].sequence].data
                   = client_out[i].data
            /\ ~IsFlushed(client_out[i - 1]) =>
                   /\ i > 2
                   /\ client_out[i - 2].type = "gemini_playback_state"
                   /\ client_out[i - 2].sequence
                          = client_out[i - 1].sequence

\* the client received a flushed chunk and then a live chunk
C8_Witness ==
    /\ Len(client_out) >= 6
    /\ client_out[2].type = "audio_metadata"
    /\ IsFlushed(client_out[2])
    /\ client_out[3].type = "bytes"
    /\ client_out[Len(client_out)].type = "bytes"
    /\ client_out[Len(client_out) - 1].type = "audio_metadata"
    /\ ~IsFlushed(client_out[Len(client_out) - 1])
    /\ client_out[Len(client_out) - 2].type = "gemini_playback_state"

\* ---- C9: the silence check delivers the queued tool responses, with
\* trigger speech_gap_detected, exactly when is_gemini_speaking is true,
\* the queue is not empty, last_audio_timestamp is set and more than 1.5 s
\* have passed since; otherwise it changes nothing.
C9_SilenceCheck ==
    last_check.ran =>
        /\ last_check.delivered <=>
             ( /\ last_check.is_gemini_speaking
               /\ last_check.queued > 0
               /\ last_check.last_audio_timestamp # NoTime
               /\ 10 * (last_check.at - last_check.last_audio_timestamp)
                      > 15 )
        /\ last_check.delivered =>
               /\ last_delivery.trigger = "speech_gap_detected"
               /\ Len(last_delivery.queued) = last_check.queued
        /\ ~last_check.delivered => ~last_check.changed

\* 2 s after the last audio the check delivered a queued response
C9_Witness ==
    /\ last_check.ran
    /\ last_check.delivered
    /\ last_check.at - last_check.last_audio_timestamp = 2
    /\ last_delivery.sent >= 1
    /\ ToolResponsesSent(gemini_out) >= 1

\* ---- C10: one polling interval after active_processing has become false
\* both loops have ended, whatever the client and the assistant stream do.
C10_LoopsEndWithinPoll ==
    (inactive_since # NoTime /\ now > inactive_since)
        => pc_in = "done" /\ pc_out = "done"

\* the updates of the user's utterances among the frames
IsUserUpdate(m) == m.type = "user_transcription_update"
UserUpdates(frames) == SelectSeq(frames, IsUserUpdate)

\* the utterance ids sent to the client so far
UtteranceIds(frames) ==
    {frames[i].id : i \in {j \in DOMAIN frames :
         frames[j].type \in {"user_transcription_update",
                             "model_response_update"}}}

\* a server-content event (one without audio data) is processed by this
\* step while the client is connected
ProcessesContent ==
    /\ Processes("server_content")
    /\ "data" \notin last_event'.has
    /\ ws_open

\* ---- C11: a non-empty user fragment f of a server-content event is
\* answered by one update with is_final false that carries the text of the
\* utterance so far followed by f, under the id of the open utterance or,
\* when none is open, under an id never used before; turn-complete then
\* sends one update with is_final true, the same text and the same id, and
\* closes the utterance, so that the next fragment opens a new one.
C11_UserUtterance ==
    [][ ProcessesContent =>
          LET ev == last_event'.ev
              f == ev.input_transcription
              open == current_user_utterance_id # NoId
              so_far == IF open THEN accumulated_user_speech_text ELSE <<>>
              upd == UserUpdates(NewFrames)
              n_upd == (IF f # <<>> THEN 1 ELSE 0)
                       + (IF ev.turn_complete /\ so_far \o f # <<>>
                          THEN 1 ELSE 0)
          IN /\ Len(upd) = n_upd
             /\ f # <<>> =>
                   /\ upd[1].text = so_far \o f
                   /\ ~upd[1].is_final
                   /\ IF open
                      THEN upd[1].id = current_user_utterance_id
                      ELSE upd[1].id \notin
                               UtteranceIds(client_out) \cup {NoId}
             /\ (ev.turn_complete /\ n_upd > 0) =>
                   /\ upd[n_upd].is_final
                   /\ upd[n_upd].text = so_far \o f
                   /\ open => upd[n_upd].id = current_user_utterance_id
                   /\ upd[n_upd].id = upd[1].id
             /\ ev.turn_complete => current_user_utterance_id' = NoId
             /\ (~ev.turn_complete /\ f # <<>>) =>
                   /\ current_user_utterance_id' = upd[1].id
                   /\ accumulated_user_speech_text' = upd[1].text ]_vars

\* two fragments, turn-complete, and a fragment of the next utterance
C11_Witness ==
    LET upd == UserUpdates(client_out)
    IN /\ Len(upd) = 4
       /\ ~upd[1].is_final /\ ~upd[2].is_final
       /\ upd[2].id = upd[1].id
       /\ Len(upd[2].text) > Len(upd[1].text)
       /\ upd[3].is_final
       /\ upd[3].id = upd[1].id
       /\ upd[3].text = upd[2].text
       /\ ~upd[4].is_final
       /\ upd[4].id # upd[1].id

\* the tool-call handler runs for the event of this step
ProcessesToolCall ==
    /\ Processes("tool_call")
    /\ last_event'.handled = <<"tool_call">>

\* ---- C12: the handler of a tool-call event creates one task per call of
\* the batch, in the order of the batch, and on its return every one of
\* them is running: none has completed before all are started, and the
\* tasks of earlier batches are as they were.
C12_BatchStartsTogether ==
    [][ ProcessesToolCall =>
          LET b == last_event'.ev.function_calls
              n == Len(tasks)
          IN /\ Len(tasks') = n + Len(b)
             /\ \A k \in 1..Len(b) :
                  /\ tasks'[n + k].name = b[k]
                  /\ tasks'[n + k].state = "running"
             /\ \A c \in 1..n : tasks'[c] = tasks[c] ]_vars

\* of the two calls of one batch the second has finished while the first
\* still runs
C12_Witness ==
    /\ n_events = 1
    /\ Len(tasks) = 2
    /\ tasks[1].state = "running"
    /\ tasks[2].state = "done"

\* ---- C13: the step in which the handling of a finished call is done
\* (its task reaches the state "done") appends the response of that call
\* to the results queue, so that the queue holds the responses in
\* completion order, whatever the order of the batch.
C13_QueuedInCompletionOrder ==
    [][ \A c \in DOMAIN tasks :
          (tasks[c].state # "done" /\ tasks'[c].state = "done") =>
              LET q == tool_results_queue'.items
              IN /\ Len(q) = Len(tool_results_queue.items) + 1
                 /\ SubSeq(q, 1, Len(q) - 1) = tool_results_queue.items
                 /\ q[Len(q)].id = c ]_vars

\* ---- C14: the handler of a tool-call event returns with every task of
\* the batch still running and the outbound loop back at its receive; a
\* step of the outbound loop that processes an event waits for no task:
\* the tasks are in the state they were in.
C14_ToolCallReturns ==
    [][ /\ ProcessesToolCall =>
              /\ \A c \in DOMAIN tasks' :
                    c > Len(tasks) =>
                        /\ tasks'[c].state = "running"
                        /\ tasks'[c].result = NoResult
              /\ out_exc' = None =>
                    pc_out' = "recv" /\ active_processing'
        /\ n_events' = n_events + 1 =>
              \A c \in DOMAIN tasks : tasks'[c] = tasks[c] ]_vars

\* a server-content event was processed while a tool was running
C14_Witness ==
    /\ n_events >= 2
    /\ last_event.processed
    /\ last_event.handled = <<"server_content">>
    /\ \E c \in DOMAIN tasks : tasks[c].state = "running"
    /\ pc_out = "recv"

HasErrorStatus(response) ==
    "status" \in DOMAIN response /\ response.status = "error"

\* the responses of call c that are on the results queue or were sent to
\* the assistant stream
QueuedFor(c) ==
    {i \in DOMAIN tool_results_queue.items :
         tool_results_queue.items[i].id = c}
SentFor(c) ==
    {i \in DOMAIN gemini_out :
         gemini_out[i].type = "tool_response" /\ gemini_out[i].id = c}

\* ---- C15: a call whose implementation raised has at most one tool
\* response, every response it has carries the status "error", and the
\* session goes on.
C15_ExceptionBecomesErrorResponse ==
    \A c \in DOMAIN tasks :
        tasks[c].outcome = "raise" =>
            /\ Cardinality(QueuedFor(c)) + Cardinality(SentFor(c)) <= 1
            /\ \A i \in QueuedFor(c) :
                 HasErrorStatus(tool_results_queue.items[i].response)
            /\ \A i \in SentFor(c) :
                 HasErrorStatus(gemini_out[i].response)

\* ---- C16: the task of a call whose name has no implementation ends
\* with an error result; the step changes neither active_processing nor
\* the loops nor any other task, so the other calls of the batch run and
\* are answered.
C16_UnknownToolName ==
    [][ \A c \in DOMAIN tasks :
          ( /\ tasks[c].name \notin available_functions
            /\ tasks[c].state = "running"
            /\ tasks'[c].state # "running" ) =>
              /\ HasErrorStatus(tasks'[c].result)
              /\ active_processing' = active_processing
              /\ UNCHANGED loop_vars
              /\ \A d \in DOMAIN tasks : d # c => tasks'[d] = tasks[d] ]_vars

\* the batch <<no_such_tool, take_a_nap>>: the first call ended with an
\* error result, the second was executed and answered
C16_Witness ==
    /\ Len(tasks) = 2
    /\ tasks[1].name = "no_such_tool"
    /\ HasErrorStatus(tasks[1].result)
    /\ tasks[2].name = "take_a_nap"
    /\ tasks[2].state = "done"
    /\ tasks[2].outcome = "dict"
    /\ QueuedFor(2) \cup SentFor(2) # {}
    /\ active_processing

\* ---- C17: client_ready_for_audio is False after construction, and no
\* step of the relay takes it from True back to False.
C17_ReadyMonotonic ==
    /\ ~client_ready_for_audio
    /\ [][client_ready_for_audio => client_ready_for_audio']_vars

\* the flag became True by the buffer timeout (the client sent nothing),
\* and the outbound loop went on to process an error event
C17_Witness ==
    /\ client_ready_for_audio
    /\ n_msgs = 0
    /\ n_events >= 2
    /\ last_event.processed
    /\ last_event.handled = <<"error">>
    /\ active_processing

\* a chunk is put into gemini_audio_buffer by this step
Enqueues ==
    /\ Len(audio_log') = Len(audio_log) + 1
    /\ audio_log'[Len(audio_log')].path = "buffered"

\* the chunks the enqueue of this step pushed out of the buffer
Evicted == Size(gemini_audio_buffer) + 1 - Size(gemini_audio_buffer')

\* the audio_truncation messages this step sent to the client
NewTruncations ==
    {i \in DOMAIN NewFrames : NewFrames[i].type = "audio_truncation"}

TruncationAnnounced ==
    /\ Cardinality(NewTruncations) = 1
    /\ \A i \in NewTruncations : NewFrames[i].chunks_removed = Evicted

\* ---- C18 as claimed: every enqueue that evicts chunks sends one
\* audio_truncation message whose chunks_removed is the number of chunks
\* evicted, and an enqueue that evicts nothing sends none.
C18_EveryEvictionAnnounced ==
    [][ Enqueues =>
          IF Evicted > 0 THEN TruncationAnnounced
          ELSE NewTruncations = {} ]_vars

\* ---- C18 amended: while the client websocket accepts sends, every
\* enqueue that evicts chunks sends one audio_truncation message whose
\* chunks_removed is the number of chunks evicted; an enqueue that evicts
\* nothing sends none, and neither does any enqueue once the websocket is
\* closed.
C18_EvictionAnnouncedWhileOpen ==
    [][ Enqueues =>
          IF Evicted > 0 /\ ws_open THEN TruncationAnnounced
          ELSE NewTruncations = {} ]_vars

\* the third chunk was put into a buffer of two: the oldest chunk is gone
\* and the client was told of one chunk removed
C18_Witness ==
    /\ ws_open
    /\ Len(audio_log) = MaxBufferSize + 1
    /\ \A i \in DOMAIN audio_log : audio_log[i].path = "buffered"
    /\ Size(gemini_audio_buffer) = MaxBufferSize
    /\ gemini_audio_buffer.buffer[1].metadata.sequence = 2
    /\ Len(client_out) > 0
    /\ client_out[Len(client_out)].type = "audio_truncation"
    /\ client_out[Len(client_out)].chunks_removed = 1

\* ---- C19: flush_all returns the chunks of the buffer, oldest first in
\* the order they were added, and leaves the buffer empty; a flush_all that
\* follows a flush_all directly returns the empty list and leaves the
\* buffer empty.
C19_FlushAllReturnsAll ==
    [][ (ab_ops' = ab_ops + 1 /\ ab_ret'.op = "flush") =>
          /\ ab_ret'.chunks = ab.buffer
          /\ ab_ret'.chunks = LastN(ab_added, ab.max_size)
          /\ ab'.buffer = <<>>
          /\ ab_ret.op = "flush" => ab_ret'.chunks = <<>> ]_vars

\* two adds, a flush_all and a second flush_all, which returned nothing
C19_Witness ==
    /\ ab.max_size >= 2
    /\ ab_ops = 4
    /\ ab.sequence_counter = 2
    /\ ab_ret.op = "flush"
    /\ ab_ret.chunks = <<>>
    /\ ab.buffer = <<>>

\* ---- C20: for a buffer of s chunks and capacity m, s <= m,
\* get_pressure_level returns "high" iff s/m > 0.9, "medium" iff
\* 0.8 < s/m <= 0.9 and "low" otherwise; at capacity 5000 the sizes 4500
\* and 4001 give "medium", 4000 gives "low" and 4501 gives "high".
C20_PressureLevel ==
    ab_ret.op = "get_pressure_level" =>
        LET m == ab.max_size
            n == Size(ab)
            level == ab_ret.level
        IN /\ n <= m
           /\ level \in {"high", "medium", "low"}
           /\ level = "high" <=> 10 * n > 9 * m
           /\ level = "medium" <=> (8 * m < 10 * n /\ 10 * n <= 9 * m)
           /\ m = 5000 =>
                /\ n = 4500 => level = "medium"
                /\ n = 4001 => level = "medium"
                /\ n = 4000 => level = "low"
                /\ n = 4501 => level = "high"

\* the buffer of the default capacity at exactly nine tenths
C20_Witness ==
    /\ ab_ret.op = "get_pressure_level"
    /\ ab.max_size = MAX_BUFFER_SIZE
    /\ Size(ab) = 4500
    /\ ab_ret.level = "medium"

\* the inbound loop handles a message in this step
Receives == Len(client_log') = Len(client_log) + 1
Received == client_log'[Len(client_log')]

\* what this step sent to the assistant stream
NewToGemini == SubSeq(gemini_out', Len(gemini_out) + 1, Len(gemini_out'))

\* the non-empty audio messages of a log that came while the client was
\* not ready
RECURSIVE HeldBack(_)
HeldBack(log) ==
    IF log = <<>> THEN <<>>
    ELSE LET m == Head(log)
         IN (IF m.kind = "bytes" /\ m.data # <<>> /\ ~m.ready
             THEN <<m.data>> ELSE <<>>) \o HeldBack(Tail(log))

IsReadySignal(m) == m.kind = "text" /\ m.text = "CLIENT_AUDIO_READY"

\* ---- C21: the step that handles CLIENT_AUDIO_READY sets
\* client_ready_for_audio, leaves mic_audio_buffer empty and sends to the
\* assistant stream the chunks held back until then (the audio received
\* while the client was not ready), in the order they arrived, each after
\* a metadata record stamped as flushed.
C21_ReadySignalFlushesMic ==
    [][ (Receives /\ IsReadySignal(Received)) =>
          LET held == IF \E i \in DOMAIN client_log :
                            IsReadySignal(client_log[i])
                      THEN <<>> ELSE HeldBack(client_log)
          IN /\ client_ready_for_audio'
             /\ mic_audio_buffer'.buffer = <<>>
             /\ Len(NewToGemini) = 2 * Len(held)
             /\ \A i \in DOMAIN held :
                  /\ NewToGemini[2 * i - 1].type = "audio_metadata"
                  /\ IsFlushed(NewToGemini[2 * i - 1])
                  /\ NewToGemini[2 * i].data = held[i] ]_vars

\* ---- C22: a non-empty binary message handled while
\* client_ready_for_audio is False is put into mic_audio_buffer and
\* nothing goes to the assistant stream; one handled while it is True goes
\* to the assistant stream as raw bytes in the same step and leaves
\* mic_audio_buffer alone.
C22_AudioBufferedUntilReady ==
    [][ (Receives /\ Received.kind = "bytes" /\ Received.data # <<>>) =>
          IF ~client_ready_for_audio
          THEN /\ NewToGemini = <<>>
               /\ Size(mic_audio_buffer') > 0
               /\ mic_audio_buffer'.buffer[Size(mic_audio_buffer')]
                      .audio_data = Received.data
          ELSE /\ NewToGemini = << [type |-> "realtime_input",
                                    data |-> Received.data] >>
               /\ mic_audio_buffer' = mic_audio_buffer ]_vars

\* the interrupt_playback messages among the frames this step sent
NewInterrupts ==
    {i \in DOMAIN NewFrames : NewFrames[i].type = "interrupt_playback"}

\* ---- C23: a server-content event with the interrupted flag sends one
\* interrupt_playback message to the client when is_tool_response is False
\* as the event arrives, and none when it is True; the message is the
\* first the event sends, ahead of its transcription updates.  An event
\* without the flag sends none.
C23_InterruptPlayback ==
    [][ ProcessesContent =>
          IF last_event'.ev.interrupted /\ ~is_tool_response
          THEN NewInterrupts = {1}
          ELSE NewInterrupts = {} ]_vars

\* a tool response was delivered at a turn completion, and the
\* interruption that came next, with words of the user, sent the update of
\* the words and no interrupt_playback
C23_Witness ==
    /\ ws_open
    /\ last_event.processed
    /\ last_event.ev.interrupted
    /\ last_event.ev.input_transcription # <<>>
    /\ is_tool_response
    /\ ToolResponsesSent(gemini_out) = 1
    /\ IsUserUpdate(client_out[Len(client_out)])
    /\ \A i \in DOMAIN client_out :
         client_out[i].type # "interrupt_playback"

\* an event that signals turn completion is processed by this step
ProcessesTurnComplete ==
    /\ Processes("server_content")
    /\ last_event'.ev.turn_complete

\* the tool responses this step sent to the assistant stream
NewToolResponses ==
    SelectSeq(NewToGemini, LAMBDA m : m.type = "tool_response")

Delivers ==
    /\ n_events' = n_events + 1
    /\ last_event'.processed
    /\ last_event'.triggers # <<>>

\* the responses of a queue that a delivery sends, in the order of the
\* queue: those whose dedup key was not processed before
RECURSIVE NotDuplicates(_, _)
NotDuplicates(items, processed) ==
    IF items = <<>> THEN <<>>
    ELSE LET r == Head(items)
         IN IF ToolCallId(r) \in processed
            THEN NotDuplicates(Tail(items), processed)
            ELSE <<r.id>> \o NotDuplicates(Tail(items),
                                          processed \cup {ToolCallId(r)})

DeliversSomething ==
    /\ Delivers
    /\ last_delivery'.sent >= 1
    /\ NewToolResponses # <<>>

\* ---- C26: is_gemini_speaking goes from False to True in the step that
\* processes an audio event, and only there; it goes from True to False
\* only in a step whose delivery sent at least one queued tool response.
\* Silence, a turn completion with nothing queued and an interruption
\* leave it as it is.
C26_SpeakingLifecycle ==
    [][ /\ (Processes("data") /\ ~speech_state.is_gemini_speaking) =>
              (speech_state'.is_gemini_speaking \/ DeliversSomething)
        /\ (~speech_state.is_gemini_speaking
               /\ speech_state'.is_gemini_speaking) => Processes("data")
        /\ (speech_state.is_gemini_speaking
               /\ ~speech_state'.is_gemini_speaking) => DeliversSomething
    ]_vars

\* the assistant spoke, two seconds passed without audio and an
\* interruption was processed with nothing queued: it still counts as
\* speaking
C26_Witness ==
    /\ speech_state.is_gemini_speaking
    /\ last_event.processed
    /\ last_event.ev.interrupted
    /\ client_out[Len(client_out)].type = "interrupt_playback"
    /\ last_check.ran
    /\ now - speech_state.last_audio_timestamp >= 2
    /\ tool_results_queue.items = <<>>
    /\ ToolResponsesSent(gemini_out) = 0

\* ---- C27: once active_processing is False no step sends a tool response
\* to the assistant stream: a tool task that ends afterwards sends
\* nothing.
C27_NoSendOnceInactive ==
    [][ ~active_processing =>
          ToolResponsesSent(gemini_out') = ToolResponsesSent(gemini_out)
    ]_vars

\* the audio event of this step has a chunk sent to the client, live or
\* after the flush of the buffer, while the websocket is closed
AudioSendFails ==
    /\ Processes("data")
    /\ ~ws_open
    /\ client_ready_for_audio \/ TimedOut

WarningDue ==
    \/ GetPressureLevel(gemini_audio_buffer') \in {"medium", "high"}
    \/ Evicted > 0

\* ---- C29: when the chunk of an audio event is buffered and the warning
\* that the enqueue calls for cannot be sent, the step leaves
\* active_processing True and the outbound loop at its receive; the chunk
\* is buffered as by add_audio_chunk and the sequence counter is the one
\* of the chunk.
C29_WarningFailureHarmless ==
    [][ (Enqueues /\ ~ws_open /\ WarningDue) =>
          LET sequence_num == audio_sequence_counter + 1
              r == AddAudioChunk(gemini_audio_buffer,
                                 last_event'.ev.data,
                                 [sequence |-> sequence_num])
          IN /\ active_processing'
             /\ out_exc' = None
             /\ pc_out' = "recv"
             /\ gemini_audio_buffer' = r.b
             /\ audio_sequence_counter' = sequence_num
             /\ NewFrames = <<>> ]_vars

\* the client went away, and three chunks were buffered since in a buffer
\* of two: the session goes on with the last two chunks and no warning
\* was sent
C29_Witness ==
    /\ ~ws_open
    /\ active_processing
    /\ pc_out = "recv"
    /\ Len(audio_log) = MaxBufferSize + 1
    /\ audio_sequence_counter = MaxBufferSize + 1
    /\ Size(gemini_audio_buffer) = MaxBufferSize
    /\ gemini_audio_buffer.buffer[MaxBufferSize].metadata.sequence
           = MaxBufferSize + 1
    /\ \A i \in DOMAIN client_out :
         client_out[i].type \notin {"buffer_pressure", "audio_truncation"}

\* the outbound loop handles an event in this step
HandlesEvent == active_processing /\ n_events' = n_events + 1

\* the inbound loop meets a close of the connection or an exception
InboundFails ==
    \/ InReceiveError
    \/ \E m \in ClientMessages : InHandlerError(m)

\* the outbound loop meets the close of the stream, an exception that
\* leaves the loop, or an exception that _process_response catches
OutboundFails ==
    \/ OutStreamClosed
    \/ HandlesEvent /\ (out_exc' # None \/ ~active_processing')

\* ---- C30: a close of the connection or an exception in the handling of
\* a message leaves active_processing False and the loop it happened in
\* ended; a loop that has ended stays ended and handles no further
\* message.
C30_FailureEndsLoop ==
    [][ /\ InboundFails => (~active_processing' /\ pc_in' = "done")
        /\ OutboundFails => (~active_processing' /\ pc_out' = "done")
        /\ pc_in = "done" =>
              (pc_in' = "done" /\ client_log' = client_log)
        /\ pc_out = "done" =>
              (pc_out' = "done" /\ last_event' = last_event) ]_vars

\* the outbound loop ended by the exception of a delivery, the inbound
\* loop by a handler that raised on its second message
C30_Witness ==
    /\ out_exc # None
    /\ pc_out = "done"
    /\ pc_in = "done"
    /\ ws_open
    /\ ~active_processing
    /\ n_msgs = 2
    /\ Len(client_log) = 2

ErrorFrame == [type |-> "text", text |-> "[ERROR_FROM_GEMINI]"]

\* ---- C31: an error event that is processed while the client websocket
\* accepts sends puts one text frame [ERROR_FROM_GEMINI] on the client's
\* stream and leaves active_processing True and the outbound loop at its
\* receive; when the send fails nothing is put on the stream,
\* active_processing is False and the loop has ended.
C31_ErrorForwarded ==
    [][ Processes("error") =>
          IF ws_open
          THEN /\ NewFrames = <<ErrorFrame>>
               /\ active_processing'
               /\ pc_out' = "recv"
          ELSE /\ NewFrames = <<>>
               /\ ~active_processing'
               /\ pc_out' = "done" ]_vars

\* two error events were forwarded one after the other and the session
\* is still active
C31_Witness ==
    /\ ws_open
    /\ active_processing
    /\ pc_out = "recv"
    /\ last_event.handled = <<"error">>
    /\ Len(client_out) >= 2
    /\ client_out[Len(client_out)] = ErrorFrame
    /\ client_out[Len(client_out) - 1] = ErrorFrame

IsModelFinal(m) == m.type = "model_response_update" /\ m.is_final

\* the final updates of model utterances among the frames
ModelFinals(frames) == SelectSeq(frames, IsModelFinal)

\* the text of the model's utterance when the completion flags of the
\* event of this step are handled: what was accumulated before, followed
\* by the fragment of the event
ModelTextAtCompletion ==
    accumulated_model_speech_text \o last_event'.ev.output_transcription

\* the id of that utterance: the open one, or the one the fragment opens
\* (after the one that a fragment of the user has opened in the same event)
ModelIdAtCompletion ==
    IF current_model_utterance_id # NoId THEN current_model_utterance_id
    ELSE IF /\ current_user_utterance_id = NoId
            /\ last_event'.ev.input_transcription # <<>>
         THEN uuid_counter + 2
         ELSE uuid_counter + 1

ModelUtteranceCleared ==
    /\ current_model_utterance_id' = NoId
    /\ accumulated_model_speech_text' = <<>>

\* one final update with the id and the text of the model's utterance is
\* sent by this step
ModelFinalSent ==
    LET fin == ModelFinals(NewFrames)
    IN /\ Len(fin) = 1
       /\ fin[1].id = ModelIdAtCompletion
       /\ fin[1].text = ModelTextAtCompletion

\* ---- C32 as claimed: a server-content event with generation_complete or
\* with turn_complete, processed while the model's utterance has text,
\* sends one update with is_final true that carries the id and the whole
\* text of the utterance, and clears the utterance.
C32_ModelFinalOnEitherCompletion ==
    [][ ( /\ ProcessesContent
          /\ last_event'.ev.generation_complete
                \/ last_event'.ev.turn_complete
          /\ ModelTextAtCompletion # <<>> ) =>
          (ModelFinalSent /\ ModelUtteranceCleared) ]_vars

\* ---- C32 amended: while the client is connected, a server-content event
\* with generation_complete processed while the model's utterance has text
\* sends one update with is_final true that carries the id and the whole
\* text of the utterance, and clears the utterance; an event with
\* turn_complete and without generation_complete clears the utterance and
\* sends no final update for it.
C32_ModelFinalOnGenerationComplete ==
    [][ (ProcessesContent /\ ModelTextAtCompletion # <<>>) =>
          LET ev == last_event'.ev
          IN /\ ev.generation_complete =>
                   (ModelFinalSent /\ ModelUtteranceCleared)
             /\ (ev.turn_complete /\ ~ev.generation_complete) =>
                   /\ ModelFinals(NewFrames) = <<>>
                   /\ ModelUtteranceCleared ]_vars

\* one utterance of the model was closed by turn_complete and has no final
\* update, a later one was closed by generation_complete and has one
C32_Witness ==
    LET fin == ModelFinals(client_out)
    IN /\ ws_open
       /\ current_model_utterance_id = NoId
       /\ Len(fin) = 1
       /\ \E i \in DOMAIN client_out :
            /\ client_out[i].type = "model_response_update"
            /\ client_out[i].id < fin[1].id
       /\ \E i \in DOMAIN client_out :
            /\ client_out[i].type = "model_response_update"
            /\ ~client_out[i].is_final
            /\ client_out[i].id = fin[1].id

\* ---- C33: when a server-content event with turn_complete has been
\* handled, the ids of both utterances are None and both accumulated texts
\* are empty, whatever they were before and whether the client websocket
\* accepted the final update or not.
C33_TurnCompleteClearsBoth ==
    [][ ( /\ Processes("server_content")
          /\ "data" \notin last_event'.has
          /\ last_event'.ev.turn_complete ) =>
          ( /\ current_user_utterance_id' = NoId
            /\ accumulated_user_speech_text' = <<>>
            /\ current_model_utterance_id' = NoId
            /\ accumulated_model_speech_text' = <<>> ) ]_vars

\* both utterances were open when the client went away; the turn_complete
\* that followed could send no final update and cleared both
C33_Witness ==
    /\ ~ws_open
    /\ last_event.processed
    /\ last_event.ev.turn_complete
    /\ last_event.handled = <<"server_content">>
    /\ current_user_utterance_id = NoId
    /\ accumulated_user_speech_text = <<>>
    /\ current_model_utterance_id = NoId
    /\ accumulated_model_speech_text = <<>>
    /\ \E i, j \in DOMAIN client_out :
         /\ client_out[i].type = "user_transcription_update"
         /\ client_out[j].type = "model_response_update"
    /\ \A i \in DOMAIN client_out :
         client_out[i].type \in {"user_transcription_update",
                                 "model_response_update"}
            => ~client_out[i].is_final

\* the handler that the attributes of an event select
HandlerOf(has) ==
    IF "data" \in has THEN "audio"
    ELSE IF "server_content" \in has THEN "server_content"
    ELSE IF "tool_call" \in has THEN "tool_call"
    ELSE IF "error" \in has THEN "error"
    ELSE "unknown"

\* what each handler leaves behind in a step: a chunk handled, the
\* utterances or the client's transcription and interruption frames
\* touched, tasks created, the frame of an error sent
AudioHandlerRan == Len(audio_log') > Len(audio_log)

ContentHandlerRan ==
    \/ utterance_vars' # utterance_vars
    \/ \E i \in DOMAIN NewFrames :
          NewFrames[i].type \in {"user_transcription_update",
                                 "model_response_update",
                                 "interrupt_playback"}

ToolHandlerRan == Len(tasks') > Len(tasks)

ErrorHandlerRan ==
    \E i \in DOMAIN NewFrames : NewFrames[i] = ErrorFrame

\* ---- C34: for every event that the outbound loop processes exactly one
\* handler runs, the one of the first attribute that is set in the order
\* data, server_content, tool_call, error, and the unrecognized branch
\* when none is set; nothing that another handler would do happens in the
\* step.
C34_OneHandlerPerEvent ==
    [][ (active_processing /\ n_events' = n_events + 1) =>
          LET h == HandlerOf(last_event'.has)
          IN /\ last_event'.handled = <<h>>
             /\ AudioHandlerRan => h = "audio"
             /\ ContentHandlerRan => h = "server_content"
             /\ ToolHandlerRan => h = "tool_call"
             /\ ErrorHandlerRan => h = "error" ]_vars

\* an event with audio data and server content that carries a fragment
\* of the user and an interruption was handled as audio alone
C34_Witness ==
    /\ last_event.processed
    /\ last_event.has = {"data", "server_content"}
    /\ last_event.handled = <<"audio">>
    /\ Len(audio_log) = 1
    /\ current_user_utterance_id = NoId
    /\ ws_open
    /\ \A i \in DOMAIN client_out :
         client_out[i].type \notin {"user_transcription_update",
                                    "interrupt_playback"}

\* ---- C35: the step that handles an empty binary message sends nothing
\* to the assistant stream and nothing to the client, leaves the session
\* state with both buffers as it was, and leaves the inbound loop at its
\* receive when active_processing is True.
C35_EmptyChunkIgnored ==
    [][ (Receives /\ Received.kind = "bytes" /\ Received.data = <<>>) =>
          /\ NewToGemini = <<>>
          /\ NewFrames = <<>>
          /\ UNCHANGED session_vars
          /\ active_processing => pc_in' = "recv" ]_vars

\* an empty binary message was handled, and the chunk that came after it
\* was forwarded alone
C35_Witness ==
    /\ Len(client_log) = 2
    /\ client_log[1].kind = "bytes"
    /\ client_log[1].data = <<>>
    /\ client_log[2].kind = "bytes"
    /\ gemini_out = << [type |-> "realtime_input",
                        data |-> client_log[2].data] >>
    /\ mic_audio_buffer.buffer = <<>>
    /\ active_processing
    /\ pc_in = "recv"

IsAudioMetadata(m) == m.type = "audio_metadata"

\* the audio_metadata messages of the client's stream, in the order sent
MetadataReceived == SelectSeq(client_out, IsAudioMetadata)

\* ---- C39: the sequence numbers of the audio_metadata messages on the
\* client's stream are strictly increasing in the order of the stream,
\* over flushed chunks and live chunks alike.
C39_SequenceIncreasing ==
    \A i, j \in DOMAIN MetadataReceived :
        i < j => MetadataReceived[i].sequence < MetadataReceived[j].sequence

\* two buffered chunks were flushed by the timeout and the chunk that
\* triggered the flush was sent live after them
C39_Witness ==
    /\ Len(MetadataReceived) = 3
    /\ IsFlushed(MetadataReceived[1])
    /\ IsFlushed(MetadataReceived[2])
    /\ ~IsFlushed(MetadataReceived[3])
    /\ MetadataReceived[3].sequence = audio_sequence_counter

\* ---- C40: active_processing is True after construction, and no step of
\* the inbound loop, the outbound loop, a tool task or the teardown takes
\* it from False back to True.
C40_ActiveNeverRestored ==
    /\ active_processing = TRUE
    /\ [][~active_processing => ~active_processing']_vars

\* both loops have ended without an exception and the connection was
\* torn down, in a session that handled a message and ended a tool task:
\* the flag is False
C40_Witness ==
    /\ ~active_processing
    /\ torn_down
    /\ out_exc = None
    /\ Len(client_log) >= 1
    /\ gemini_out # <<>>
    /\ \E c \in DOMAIN tasks : tasks[c].state = "done"

====
